---- MODULE Spec2Model ----
(***************************************************************************)
(* Augmented red-black interval tree of package itree (tree.go, point.go,  *)
(* interval.go).  Nodes live in a heap indexed by address; the tree is the *)
(* root link, the cached length and the heap.                              *)
(***************************************************************************)
EXTENDS Integers, Sequences, FiniteSets, TLC

\* ------------------------------------------------------------------------
\* Bounds of the model
\* ------------------------------------------------------------------------
\* Points are the Int values 0..MaxPoint.
MaxPoint == 4

\* Specification Spec keeps the tree at no more than MaxNodes nodes.
MaxNodes == 4

\* Specification SpecDeep keeps the tree at no more than MaxDeepNodes nodes.
MaxDeepNodes == 10

\* Payloads are the values 1..MaxVal.
MaxVal == 2
MaxLoopNodes == 6

\* ------------------------------------------------------------------------
\* Points and intervals (point.go, interval.go)
\* ------------------------------------------------------------------------
Points == 0 .. MaxPoint

\* The nil Point interface value (a missing endpoint).
NilPoint == -1

\* The nil *Node.
NIL == 0

\* The nil interface{} value.
NoVal == 0

Values == 1 .. MaxVal

\* Int.Less
PLess(x, y) == x < y

\* equal(x, y)
equal(x, y) == ~(PLess(x, y) \/ PLess(y, x))

\* lessOrEqual(x, y)
lessOrEqual(x, y) == ~PLess(y, x)

Interval(l, r) == [Left |-> l, Right |-> r]

\* Every Interval value a caller can build from the points, nil included.
AllIntervals == {Interval(l, r) : l \in Points \cup {NilPoint}, r \in Points \cup {NilPoint}}

\* A method call on, or a type assertion of, a nil Point panics.
nilEndpoint(iv) == iv.Left = NilPoint \/ iv.Right = NilPoint

\* Interval.empty as a test that lets an interval with Left = Right pass.
emptyStrict(iv) == PLess(iv.Right, iv.Left)

\* Interval.empty
empty(iv) == lessOrEqual(iv.Right, iv.Left)

\* "if iv.empty() { panic("empty interval") }": the entry check of every
\* operation that takes an interval panics on an empty interval, and on a
\* missing endpoint inside empty().
Rejected(iv) == nilEndpoint(iv) \/ empty(iv)

\* The intervals that pass the entry check.
Intervals == {iv \in AllIntervals : ~Rejected(iv)}

\* Interval.Less as a comparison of the left endpoints alone.
IvLessByLeft(iv, than) == PLess(iv.Left, than.Left)

\* Interval.Less
IvLess(iv, than) ==
  IF PLess(iv.Left, than.Left) THEN TRUE
  ELSE IF PLess(than.Left, iv.Left) THEN FALSE
  ELSE PLess(iv.Right, than.Right)

\* Interval.Equal
IvEqual(iv, to) == equal(iv.Left, to.Left) /\ equal(iv.Right, to.Right)

\* Interval.ContainsPoint
ContainsPoint(iv, x) == PLess(x, iv.Right) /\ lessOrEqual(iv.Left, x)

\* Interval.ContainsInterval
ContainsInterval(iv, other) ==
  lessOrEqual(iv.Left, other.Left) /\ lessOrEqual(other.Right, iv.Right)

\* Interval.Overlaps
Overlaps(iv, with) ==
  ~(lessOrEqual(with.Right, iv.Left) \/ lessOrEqual(iv.Right, with.Left))

\* ------------------------------------------------------------------------
\* The heap of nodes
\* ------------------------------------------------------------------------
\* Addresses a *Node can hold besides nil: one per storable key.
Addr == 1 .. Cardinality(Intervals)

\* The memory of an address that holds no node.
FreeNode ==
  [Value |-> NoVal, interval |-> Interval(0, 0), maxRight |-> 0,
   parent |-> NIL, left |-> NIL, right |-> NIL, red |-> FALSE]

\* Preferred address of the node allocated for a key.
Slot(iv) == (iv.Right * (iv.Right - 1)) \div 2 + iv.Left + 1

IsFree(ns, a) == ns[a] = FreeNode

\* The address &Node{...} returns: one that holds no node.
NewAddr(ns, iv) ==
  IF IsFree(ns, Slot(iv)) THEN Slot(iv)
  ELSE CHOOSE a \in Addr : IsFree(ns, a) /\ \A b \in Addr : IsFree(ns, b) => a <= b

\* root, length: the fields of T.  nodes: the heap, Node values by address;
\* nodes[NIL] is never written and only keeps field reads total.
\* checkMap: the mirror map of TestRandom, NoVal for an absent key.
\* netInserted: the calls so far that returned present = false, less the
\* calls that deleted a node, as a caller keeping count would have it.
\* args, called, returned: the arguments, the name and the result of a call
\* of a method of Interval.
\* loop: a caller's loop "for n != nil { n = tree.DeleteAndAscend(n) }" or
\* its mirror with DeleteAndDescend: whether it runs, its direction, its
\* variable n, the iterations made, Len() when it started and the key it
\* deleted last.
VARIABLES root, length, nodes, checkMap, netInserted, args, called, returned,
          loop

vars ==
  <<root, length, nodes, checkMap, netInserted, args, called, returned, loop>>

\* The tree T as a value threaded through the methods; panicked records a
\* run-time panic raised inside a method, rotationsSound that every rotation
\* made inside a method did what the comments of rotateLeft and rotateRight
\* promise.
Tree(r, l, ns) ==
  [root |-> r, length |-> l, nodes |-> ns, panicked |-> FALSE,
   rotationsSound |-> TRUE]

Panic(t) == [t EXCEPT !.panicked = TRUE]

\* a.f = v.  Writing through a nil pointer panics, and nothing executes
\* after a panic.
store(t, a, f, v) ==
  IF t.panicked THEN t
  ELSE IF a = NIL THEN Panic(t)
  ELSE [t EXCEPT !.nodes[a][f] = v]

\* a1.f1, a2.f2 = v1, v2
store2(t, a1, f1, v1, a2, f2, v2) == store(store(t, a1, f1, v1), a2, f2, v2)

\* t.root = r
storeRoot(t, r) == IF t.panicked THEN t ELSE [t EXCEPT !.root = r]

\* Node.black
black(ns, n) == n = NIL \/ ~ns[n].red

\* Node.sibling as a method that returns the left child whichever child n
\* is.
siblingAlwaysLeft(ns, n, parent) ==
  IF parent = NIL THEN NIL ELSE ns[parent].left

\* Node.sibling
sibling(ns, n, parent) ==
  IF parent = NIL THEN NIL
  ELSE IF ns[parent].left = n THEN ns[parent].right
  ELSE ns[parent].left

\* "if c != nil && mr.Less(c.maxRight) { mr = c.maxRight }": the larger of
\* mr and the maxRight of child c, if any.
foldMaxRight(ns, mr, c) ==
  IF c # NIL /\ PLess(mr, ns[c].maxRight) THEN ns[c].maxRight ELSE mr

\* recomputeMaxRight as an update that forgets the children.
recomputeMaxRightAlone(t, x) == store(t, x, "maxRight", t.nodes[x].interval.Right)

\* x.maxRight = x.interval.Right, folded with the left and the right child
\* (tree.go 56-62, 105-111, 401-407).
recomputeMaxRight(t, x) ==
  store(t, x, "maxRight",
        foldMaxRight(t.nodes,
          foldMaxRight(t.nodes, t.nodes[x].interval.Right, t.nodes[x].left),
          t.nodes[x].right))

\* raiseMaxRight as a rotation that leaves the new subtree root's maxRight
\* alone.
raiseMaxRightSkipped(t, n, m) == t

\* "if n.maxRight.Less(m.maxRight) { n.maxRight = m.maxRight }"
\* (tree.go 63-65, 112-114).
raiseMaxRight(t, n, m) ==
  IF PLess(t.nodes[n].maxRight, t.nodes[m].maxRight)
  THEN store(t, n, "maxRight", t.nodes[m].maxRight)
  ELSE t

\* relink as a rewiring that leaves the link that leads to n where it is.
relinkSkipped(t, parent, n, c) == t

\* "if parent != nil { if parent.left == n { parent.left = c } else
\*  { parent.right = c } } else { t.root = c }": retarget the link that
\* leads to n (tree.go 43-51, 92-100, 336-344, 357-365, 389-397).
relink(t, parent, n, c) ==
  IF parent # NIL
  THEN IF t.nodes[parent].left = n
       THEN store(t, parent, "left", c)
       ELSE store(t, parent, "right", c)
  ELSE storeRoot(t, c)

\* storeParentIfAny as a rewiring that forgets the moved child's parent link.
storeParentSkipped(t, y, p) == t

\* "if y != nil { y.parent = p }"
storeParentIfAny(t, y, p) == IF y # NIL THEN store(t, y, "parent", p) ELSE t

\* No path of a tree of the model is longer than the number of addresses.
Fuel == Cardinality(Addr)

RECURSIVE inorder(_, _, _)
\* In-order traversal from n: left subtree, node, right subtree.
inorder(ns, n, fuel) ==
  IF n = NIL \/ fuel = 0 THEN <<>>
  ELSE inorder(ns, ns[n].left, fuel - 1) \o <<n>> \o inorder(ns, ns[n].right, fuel - 1)

RECURSIVE subtreeNodes(_, _, _)
\* The addresses reachable from n through left and right links, at most
\* fuel levels deep.
subtreeNodes(ns, n, fuel) ==
  IF n = NIL \/ fuel = 0 THEN {}
  ELSE {n} \cup subtreeNodes(ns, ns[n].left, fuel - 1)
           \cup subtreeNodes(ns, ns[n].right, fuel - 1)

\* The greatest point of a non-empty set of points.
MaxOf(S) == CHOOSE x \in S : \A y \in S : lessOrEqual(y, x)

\* The greatest right endpoint in the subtree of n.
SubtreeMaxRight(ns, n) ==
  MaxOf({ns[m].interval.Right : m \in subtreeNodes(ns, n, Fuel)})

\* "The order defined by Interval.Less is left invariant by this operation"
\* and "fixes the maxRight values of the affected nodes" (tree.go 19-29,
\* 68-78): the rotation of m and n that led from tree before to tree after
\* kept the in-order sequence and left both maxRight values right.
RotationSound(before, after, m, n) ==
  /\ inorder(after.nodes, after.root, Fuel) = inorder(before.nodes, before.root, Fuel)
  /\ after.nodes[m].maxRight = SubtreeMaxRight(after.nodes, m)
  /\ after.nodes[n].maxRight = SubtreeMaxRight(after.nodes, n)

\* Record in the tree value whether the rotation just made was sound.
noteRotation(before, after, m, n) ==
  IF after.panicked THEN after
  ELSE [after EXCEPT !.rotationsSound = @ /\ RotationSound(before, after, m, n)]

\* T.rotateLeft
rotateLeft(t, m) ==
  LET parent == t.nodes[m].parent
      n == t.nodes[m].right
      y == t.nodes[t.nodes[m].right].left
  IN IF t.panicked THEN t
     ELSE IF n = NIL THEN Panic(t)
     ELSE noteRotation(t,
            raiseMaxRight(
              recomputeMaxRight(
                store2(
                  relink(
                    storeParentIfAny(
                      store2(t, n, "parent", parent, m, "parent", n),
                      y, m),
                    parent, m, n),
                  n, "left", m, m, "right", y),
                m),
              n, m),
            m, n)

\* T.rotateRight
rotateRight(t, n) ==
  LET parent == t.nodes[n].parent
      m == t.nodes[n].left
      y == t.nodes[t.nodes[n].left].right
  IN IF t.panicked THEN t
     ELSE IF m = NIL THEN Panic(t)
     ELSE noteRotation(t,
            raiseMaxRight(
              recomputeMaxRight(
                store2(
                  relink(
                    storeParentIfAny(
                      store2(t, m, "parent", parent, n, "parent", m),
                      y, n),
                    parent, n, m),
                  n, "left", y, m, "right", n),
                n),
              m, n),
            n, m)

\* The end of T.rebalanceRed (tree.go 496-502): repaint parent and
\* grandparent, rotate the grandparent away from n.
rebalanceRedFinish(t, n, parent, grandparent) ==
  IF n = t.nodes[parent].left
  THEN rotateRight(store(store(t, parent, "red", FALSE), grandparent, "red", TRUE),
                   grandparent)
  ELSE rotateLeft(store(store(t, parent, "red", FALSE), grandparent, "red", TRUE),
                  grandparent)

\* "n = n.left; parent = grandparent.left" after rotateLeft(parent)
\* (tree.go 488-490)
afterRotateLeft(t, n, grandparent) ==
  rebalanceRedFinish(t, t.nodes[n].left, t.nodes[grandparent].left, grandparent)

\* "n = n.right; parent = grandparent.right" after rotateRight(parent)
\* (tree.go 492-494)
afterRotateRight(t, n, grandparent) ==
  rebalanceRedFinish(t, t.nodes[n].right, t.nodes[grandparent].right, grandparent)

\* The black-auncle branch of T.rebalanceRed (tree.go 484-502).  Reading
\* grandparent.left through a nil grandparent panics.
rebalanceRedRotate(t, n, parent, grandparent) ==
  IF grandparent = NIL THEN Panic(t)
  ELSE IF n = t.nodes[parent].right /\ parent = t.nodes[grandparent].left
  THEN afterRotateLeft(rotateLeft(t, parent), n, grandparent)
  ELSE IF n = t.nodes[parent].left /\ parent = t.nodes[grandparent].right
  THEN afterRotateRight(rotateRight(t, parent), n, grandparent)
  ELSE rebalanceRedFinish(t, n, parent, grandparent)

\* The red-auncle branch of T.rebalanceRed (tree.go 478-480): the repaint
\* before the recursive call.
repaintUp(t, auncle, parent, grandparent) ==
  store(store(store(t, auncle, "red", FALSE), parent, "red", FALSE),
        grandparent, "red", TRUE)

\* rebalanceRed as an insertion that never repaints or rotates.
rebalanceRedSkipped(t, n) == t

RECURSIVE rebalanceRed(_, _)
\* T.rebalanceRed
rebalanceRed(t, n) ==
  LET parent == t.nodes[n].parent
      grandparent == t.nodes[t.nodes[n].parent].parent
      auncle == sibling(t.nodes, t.nodes[n].parent, t.nodes[t.nodes[n].parent].parent)
  IN IF t.panicked THEN t
     ELSE IF black(t.nodes, n) THEN t
     ELSE IF parent = NIL THEN store(t, n, "red", FALSE)
     ELSE IF ~t.nodes[parent].red THEN t
     ELSE IF auncle # NIL /\ t.nodes[auncle].red
     THEN rebalanceRed(repaintUp(t, auncle, parent, grandparent), grandparent)
     ELSE rebalanceRedRotate(t, n, parent, grandparent)

\* &Node{Value: value, interval: interval, maxRight: interval.Right,
\*       parent: parent, red: red}
NewNode(value, interval, parent, red) ==
  [Value |-> value, interval |-> interval, maxRight |-> interval.Right,
   parent |-> parent, left |-> NIL, right |-> NIL, red |-> red]

\* The result of replaceOrInsert / ReplaceOrInsert: the tree and the pair
\* (previous, present).
Result(t, previous, present) == [t |-> t, previous |-> previous, present |-> present]

\* lengthInc as an insertion that forgets the cached length.
lengthIncSkipped(t) == t

\* t.length++
lengthInc(t) == IF t.panicked THEN t ELSE [t EXCEPT !.length = t.length + 1]

\* lengthDec as a deletion that forgets the cached length.
lengthDecSkipped(t) == t

\* t.length--
lengthDec(t) == IF t.panicked THEN t ELSE [t EXCEPT !.length = t.length - 1]

\* attach as an insertion that hangs the new node on the other side.
attachOtherSide(t, n, side, a, interval, value) ==
  lengthInc(
    rebalanceRed(
      store([t EXCEPT !.nodes[a] = NewNode(value, interval, n, TRUE)], n,
            IF side = "left" THEN "right" ELSE "left", a),
      a))

\* "n.right = &Node{...}; t.rebalanceRed(n.right); t.length++" and its
\* mirror (point.go 248-256, 262-270); side is "left" or "right", a the new
\* node's address.
attach(t, n, side, a, interval, value) ==
  lengthInc(
    rebalanceRed(
      store([t EXCEPT !.nodes[a] = NewNode(value, interval, n, TRUE)], n, side, a),
      a))

\* raiseTo as an assignment without the comparison.
raiseToAlways(t, n, right) == store(t, n, "maxRight", right)

\* "if n.maxRight.Less(interval.Right) { n.maxRight = interval.Right }"
\* (point.go 240-242)
raiseTo(t, n, right) ==
  IF PLess(t.nodes[n].maxRight, right) THEN store(t, n, "maxRight", right) ELSE t

\* replaceValue as a replace that returns the previous value but keeps it.
replaceValueSkipped(t, n, value) == t

\* "n.Value = value" (point.go 274)
replaceValue(t, n, value) == store(t, n, "Value", value)

RECURSIVE replaceOrInsert(_, _, _, _)
\* Node.replaceOrInsert
replaceOrInsert(t, n, interval, value) ==
  IF IvLess(t.nodes[n].interval, interval)
  THEN IF t.nodes[n].right # NIL
       THEN replaceOrInsert(raiseTo(t, n, interval.Right), t.nodes[n].right,
                            interval, value)
       ELSE Result(attach(raiseTo(t, n, interval.Right), n, "right",
                          NewAddr(t.nodes, interval), interval, value),
                   NoVal, FALSE)
  ELSE IF IvLess(interval, t.nodes[n].interval)
  THEN IF t.nodes[n].left # NIL
       THEN replaceOrInsert(raiseTo(t, n, interval.Right), t.nodes[n].left,
                            interval, value)
       ELSE Result(attach(raiseTo(t, n, interval.Right), n, "left",
                          NewAddr(t.nodes, interval), interval, value),
                   NoVal, FALSE)
  ELSE Result(replaceValue(raiseTo(t, n, interval.Right), n, value),
              t.nodes[n].Value, TRUE)

\* firstNode as a first insertion that sets the root and leaves the
\* length 0.
firstNodeNoLength(t, a, interval, value) ==
  [t EXCEPT !.root = a, !.nodes[a] = NewNode(value, interval, NIL, FALSE)]

\* "t.root = &Node{...}; t.length = 1" (tree.go 254-259), a the new node's
\* address.
firstNode(t, a, interval, value) ==
  [t EXCEPT !.root = a, !.nodes[a] = NewNode(value, interval, NIL, FALSE),
            !.length = 1]

\* T.ReplaceOrInsert
ReplaceOrInsert(t, interval, value) ==
  IF Rejected(interval) THEN Result(Panic(t), NoVal, FALSE)
  ELSE IF t.length = 0
  THEN Result(firstNode(t, NewAddr(t.nodes, interval), interval, value), NoVal, FALSE)
  ELSE replaceOrInsert(t, t.root, interval, value)

\* DeleteNode, n.left.right == nil (tree.go 345-348): the parent links of
\* n.right and of candidate.left.
leftChildParents(t, n, candidate) ==
  storeParentIfAny(store(t, t.nodes[n].right, "parent", candidate),
                   t.nodes[candidate].left, n)

\* "candidate.left, n.left = n, candidate.left" (tree.go 349)
leftChildLefts(t, n, candidate) ==
  store2(t, candidate, "left", n, n, "left", t.nodes[candidate].left)

\* "candidate.right, n.right = n.right, nil" (tree.go 350)
leftChildRights(t, n, candidate) ==
  store2(t, candidate, "right", t.nodes[n].right, n, "right", NIL)

\* "candidate.parent, n.parent = n.parent, candidate" (tree.go 351)
leftChildUp(t, n, candidate) ==
  store2(t, candidate, "parent", t.nodes[n].parent, n, "parent", candidate)

\* DeleteNode, n.left.right == nil: swap n with its left child
\* (tree.go 335-351).
swapWithLeftChild(t, n, candidate) ==
  leftChildUp(
    leftChildRights(
      leftChildLefts(
        leftChildParents(relink(t, t.nodes[n].parent, n, candidate), n, candidate),
        n, candidate),
      n, candidate),
    n, candidate)

RECURSIVE rightmost(_, _)
\* "for dowhile := true; dowhile; dowhile = candidate.right != nil
\*  { candidate = candidate.right }", entered with candidate.right != nil.
rightmost(ns, candidate) ==
  IF ns[ns[candidate].right].right # NIL
  THEN rightmost(ns, ns[candidate].right)
  ELSE ns[candidate].right

\* "n.left.parent = candidate; n.right.parent = candidate" (tree.go 366-367)
rightmostChildren(t, n, candidate) ==
  store2(t, t.nodes[n].left, "parent", candidate,
            t.nodes[n].right, "parent", candidate)

\* "candidate.parent.right = n; if candidate.left != nil
\*  { candidate.left.parent = n }" (tree.go 368-371)
rightmostAround(t, n, candidate) ==
  storeParentIfAny(store(t, t.nodes[candidate].parent, "right", n),
                   t.nodes[candidate].left, n)

\* "candidate.left, n.left = n.left, candidate.left" (tree.go 372)
rightmostLefts(t, n, candidate) ==
  store2(t, candidate, "left", t.nodes[n].left, n, "left", t.nodes[candidate].left)

\* "candidate.right, n.right = n.right, candidate.right" (tree.go 373)
rightmostRights(t, n, candidate) ==
  store2(t, candidate, "right", t.nodes[n].right, n, "right", t.nodes[candidate].right)

\* "candidate.parent, n.parent = n.parent, candidate.parent" (tree.go 374)
rightmostUp(t, n, candidate) ==
  store2(t, candidate, "parent", t.nodes[n].parent,
            n, "parent", t.nodes[candidate].parent)

\* DeleteNode, n.left.right != nil: swap n with the rightmost descendant of
\* its left child (tree.go 353-374).
swapWithRightmost(t, n, candidate) ==
  rightmostUp(
    rightmostRights(
      rightmostLefts(
        rightmostAround(
          rightmostChildren(relink(t, t.nodes[n].parent, n, candidate), n, candidate),
          n, candidate),
        n, candidate),
      n, candidate),
    n, candidate)

\* "n.red, candidate.red = candidate.red, n.red" (tree.go 376)
swapColours(t, n, candidate) ==
  store2(t, n, "red", t.nodes[candidate].red, candidate, "red", t.nodes[n].red)

\* swapWithPredecessor as a deletion that unlinks a node with two children
\* where it stands.
swapWithPredecessorSkipped(t, n) == t

\* DeleteNode, phase A (tree.go 327-377): a node with two children trades
\* places and colours with the rightmost node of its left subtree.
swapWithPredecessor(t, n) ==
  IF t.nodes[t.nodes[n].left].right = NIL
  THEN swapColours(swapWithLeftChild(t, n, t.nodes[n].left), n, t.nodes[n].left)
  ELSE swapColours(swapWithRightmost(t, n, rightmost(t.nodes, t.nodes[n].left)),
                   n, rightmost(t.nodes, t.nodes[n].left))

RECURSIVE fixMaxRight(_, _)
\* "Fix maxRight in all ancestors of n" (tree.go 399-408)
fixMaxRight(t, current) ==
  IF current = NIL \/ t.panicked THEN t
  ELSE fixMaxRight(recomputeMaxRight(t, current), t.nodes[current].parent)

\* "if niecew != nil { niecew.red = false }" (tree.go 559-561, 564-566)
storeRedIfAny(t, niecew) == IF niecew # NIL THEN store(t, niecew, "red", FALSE) ELSE t

\* rebalanceBlack, case 3 (tree.go 553-568)
rebalanceBlackCase3(t, parent, n) ==
  LET sib == sibling(t.nodes, n, parent)
  IN IF t.panicked THEN t
     ELSE IF sib = NIL THEN Panic(t)
     ELSE IF n = t.nodes[parent].left
     THEN rotateLeft(
            storeRedIfAny(
              store2(t, sib, "red", t.nodes[parent].red, parent, "red", FALSE),
              t.nodes[sib].right),
            parent)
     ELSE rotateRight(
            storeRedIfAny(
              store2(t, sib, "red", t.nodes[parent].red, parent, "red", FALSE),
              t.nodes[sib].left),
            parent)

\* rebalanceBlack, case 2 (tree.go 540-551)
rebalanceBlackCase2(t, parent, n, sib, lniecew, rniecew) ==
  IF n = t.nodes[parent].left /\ black(t.nodes, rniecew)
  THEN rotateRight(store2(t, sib, "red", TRUE, lniecew, "red", FALSE), sib)
  ELSE IF n = t.nodes[parent].right /\ black(t.nodes, lniecew)
  THEN rotateLeft(store2(t, sib, "red", TRUE, rniecew, "red", FALSE), sib)
  ELSE t

\* rebalanceBlack, red sibling (tree.go 513-525).  Reading sibling.red
\* through a nil sibling panics.
rebalanceBlackRedSibling(t, parent, n) ==
  LET sib == sibling(t.nodes, n, parent)
  IN IF sib = NIL THEN Panic(t)
     ELSE IF t.nodes[sib].red
     THEN IF n = t.nodes[parent].left
          THEN rotateLeft(store2(t, parent, "red", TRUE, sib, "red", FALSE), parent)
          ELSE rotateRight(store2(t, parent, "red", TRUE, sib, "red", FALSE), parent)
     ELSE t

RECURSIVE rebalanceBlack(_, _, _)

\* rebalanceBlack, case 1 (tree.go 530-538), after "sibling.red = true"
rebalanceBlackCase1(t, parent) ==
  IF t.nodes[parent].red
  THEN store(t, parent, "red", FALSE)
  ELSE rebalanceBlack(t, t.nodes[parent].parent, parent)

\* rebalanceBlack from "Case 1" on (tree.go 527-568).  Reading sibling.left
\* through a nil sibling panics.
rebalanceBlackCases(t, parent, n) ==
  LET sib == sibling(t.nodes, n, parent)
      lniecew == t.nodes[sibling(t.nodes, n, parent)].left
      rniecew == t.nodes[sibling(t.nodes, n, parent)].right
  IN IF t.panicked THEN t
     ELSE IF sib = NIL THEN Panic(t)
     ELSE IF black(t.nodes, sib) /\ black(t.nodes, lniecew) /\ black(t.nodes, rniecew)
     THEN rebalanceBlackCase1(store(t, sib, "red", TRUE), parent)
     ELSE rebalanceBlackCase3(
            rebalanceBlackCase2(t, parent, n, sib, lniecew, rniecew),
            parent, n)

\* T.rebalanceBlack
rebalanceBlack(t, parent, n) ==
  IF parent = NIL THEN t
  ELSE rebalanceBlackCases(rebalanceBlackRedSibling(t, parent, n), parent, n)

\* rebalanceDeleted as a deletion that never rebalances.
rebalanceDeletedSkipped(t, n, parent, child) == t

\* rebalanceDeleted as a deletion that rebalances but leaves a red child
\* of the deleted black node red.
rebalanceDeletedNoRepaint(t, n, parent, child) ==
  IF t.panicked THEN t
  ELSE IF ~t.nodes[n].red /\ ~(child # NIL /\ t.nodes[child].red)
  THEN rebalanceBlack(t, parent, child)
  ELSE t

\* "Finally, rebalance the tree if necessary" (tree.go 410-417)
rebalanceDeleted(t, n, parent, child) ==
  IF t.panicked THEN t
  ELSE IF ~t.nodes[n].red
  THEN IF child # NIL /\ t.nodes[child].red
       THEN store(t, child, "red", FALSE)
       ELSE rebalanceBlack(t, parent, child)
  ELSE t

\* DeleteNode, phase B (tree.go 379-419): unlink n, which has at most one
\* child, fix maxRight in its ancestors, rebalance, decrement the length.
unlink(t, n) ==
  LET parent == t.nodes[n].parent
      child == IF t.nodes[n].left = NIL THEN t.nodes[n].right ELSE t.nodes[n].left
  IN lengthDec(
       rebalanceDeleted(
         fixMaxRight(
           relink(storeParentIfAny(t, child, parent), parent, n, child),
           parent),
         n, parent, child))

\* After DeleteNode the node is garbage: its memory goes back to the
\* allocator.
release(t, n) == [t EXCEPT !.nodes[n] = FreeNode]

\* T.DeleteNode
DeleteNode(t, n) ==
  IF t.nodes[n].left # NIL /\ t.nodes[n].right # NIL
  THEN release(unlink(swapWithPredecessor(t, n), n), n)
  ELSE release(unlink(t, n), n)

RECURSIVE getNodeFrom(_, _, _)
\* The loop of T.GetNode (tree.go 123-133)
getNodeFrom(ns, current, iv) ==
  IF current = NIL THEN NIL
  ELSE IF IvLess(iv, ns[current].interval) THEN getNodeFrom(ns, ns[current].left, iv)
  ELSE IF IvLess(ns[current].interval, iv) THEN getNodeFrom(ns, ns[current].right, iv)
  ELSE current

\* What a panicking call yields instead of a return value.
PANIC == "panic"

\* T.GetNode
GetNode(t, iv) ==
  IF Rejected(iv) THEN PANIC ELSE getNodeFrom(t.nodes, t.root, iv)

\* T.Get: the pair (value, present)
Get(t, iv) ==
  IF Rejected(iv) THEN PANIC
  ELSE LET node == getNodeFrom(t.nodes, t.root, iv)
       IN IF node = NIL THEN <<NoVal, FALSE>> ELSE <<t.nodes[node].Value, TRUE>>

RECURSIVE getMinFrom(_, _, _)
\* The loop of T.GetMin (tree.go 140-142)
getMinFrom(ns, current, candidate) ==
  IF current = NIL THEN candidate ELSE getMinFrom(ns, ns[current].left, current)

\* T.GetMin
GetMin(t) == getMinFrom(t.nodes, t.root, NIL)

\* The loop of GetMax as one that stops at the first node.
getMaxFromShallow(ns, current, candidate) ==
  IF current = NIL THEN candidate ELSE current

RECURSIVE getMaxFrom(_, _, _)
\* The loop of T.GetMax (tree.go 150-152)
getMaxFrom(ns, current, candidate) ==
  IF current = NIL THEN candidate ELSE getMaxFrom(ns, ns[current].right, current)

\* T.GetMax
GetMax(t) == getMaxFrom(t.nodes, t.root, NIL)

RECURSIVE getLessFromInclusive(_, _, _, _)
\* The loop of GetLess as one that also takes a node whose key equals iv.
getLessFromInclusive(ns, current, candidate, iv) ==
  IF current = NIL THEN candidate
  ELSE IF IvLess(iv, ns[current].interval)
  THEN getLessFromInclusive(ns, ns[current].left, candidate, iv)
  ELSE getLessFromInclusive(ns, ns[current].right, current, iv)

RECURSIVE getLessFrom(_, _, _, _)
\* The loop of T.GetLess (tree.go 163-171)
getLessFrom(ns, current, candidate, iv) ==
  IF current = NIL THEN candidate
  ELSE IF IvLess(ns[current].interval, iv)
  THEN getLessFrom(ns, ns[current].right, current, iv)
  ELSE getLessFrom(ns, ns[current].left, candidate, iv)

\* T.GetLess
GetLess(t, iv) ==
  IF Rejected(iv) THEN PANIC ELSE getLessFrom(t.nodes, t.root, NIL, iv)

RECURSIVE getLessEqualFrom(_, _, _, _)
\* The loop of T.GetLessEqual (tree.go 182-190)
getLessEqualFrom(ns, current, candidate, iv) ==
  IF current = NIL THEN candidate
  ELSE IF IvLess(iv, ns[current].interval)
  THEN getLessEqualFrom(ns, ns[current].left, candidate, iv)
  ELSE getLessEqualFrom(ns, ns[current].right, current, iv)

\* T.GetLessEqual
GetLessEqual(t, iv) ==
  IF Rejected(iv) THEN PANIC ELSE getLessEqualFrom(t.nodes, t.root, NIL, iv)

RECURSIVE getGreaterFrom(_, _, _, _)
\* The loop of T.GetGreater (tree.go 201-209)
getGreaterFrom(ns, current, candidate, iv) ==
  IF current = NIL THEN candidate
  ELSE IF IvLess(iv, ns[current].interval)
  THEN getGreaterFrom(ns, ns[current].left, current, iv)
  ELSE getGreaterFrom(ns, ns[current].right, candidate, iv)

\* T.GetGreater
GetGreater(t, iv) ==
  IF Rejected(iv) THEN PANIC ELSE getGreaterFrom(t.nodes, t.root, NIL, iv)

RECURSIVE getGreaterEqualFromStrict(_, _, _, _)
\* The loop of GetGreaterEqual as one that passes over a node whose key
\* equals iv.
getGreaterEqualFromStrict(ns, current, candidate, iv) ==
  IF current = NIL THEN candidate
  ELSE IF IvLess(iv, ns[current].interval)
  THEN getGreaterEqualFromStrict(ns, ns[current].left, current, iv)
  ELSE getGreaterEqualFromStrict(ns, ns[current].right, candidate, iv)

RECURSIVE getGreaterEqualFrom(_, _, _, _)
\* The loop of T.GetGreaterEqual (tree.go 221-229)
getGreaterEqualFrom(ns, current, candidate, iv) ==
  IF current = NIL THEN candidate
  ELSE IF IvLess(ns[current].interval, iv)
  THEN getGreaterEqualFrom(ns, ns[current].right, candidate, iv)
  ELSE getGreaterEqualFrom(ns, ns[current].left, current, iv)

\* T.GetGreaterEqual
GetGreaterEqual(t, iv) ==
  IF Rejected(iv) THEN PANIC ELSE getGreaterEqualFrom(t.nodes, t.root, NIL, iv)

\* The ascending loop of Node.Next as one that returns the parent whichever
\* side the node is on.
ascendNextAnySide(ns, candidate) == ns[candidate].parent

RECURSIVE ascendNext(_, _)
\* The ascending loop of Node.Next (point.go 373-381)
ascendNext(ns, candidate) ==
  IF ns[candidate].parent = NIL THEN NIL
  ELSE IF ns[ns[candidate].parent].left = candidate THEN ns[candidate].parent
  ELSE ascendNext(ns, ns[candidate].parent)

RECURSIVE leftmost(_, _)
\* "for candidate.left != nil { candidate = candidate.left }"
leftmost(ns, candidate) ==
  IF ns[candidate].left # NIL THEN leftmost(ns, ns[candidate].left) ELSE candidate

\* Node.Next
NodeNext(ns, n) ==
  IF ns[n].right = NIL THEN ascendNext(ns, n) ELSE leftmost(ns, ns[n].right)

RECURSIVE ascendPrevious(_, _)
\* The ascending loop of Node.Previous (point.go 396-404)
ascendPrevious(ns, candidate) ==
  IF ns[candidate].parent = NIL THEN NIL
  ELSE IF ns[ns[candidate].parent].right = candidate THEN ns[candidate].parent
  ELSE ascendPrevious(ns, ns[candidate].parent)

RECURSIVE descendRight(_, _)
\* "for candidate.right != nil { candidate = candidate.right }"
descendRight(ns, candidate) ==
  IF ns[candidate].right # NIL THEN descendRight(ns, ns[candidate].right) ELSE candidate

\* Node.Previous as a method that returns the parent.
NodePreviousParent(ns, n) == ns[n].parent

\* Node.Previous
NodePrevious(ns, n) ==
  IF ns[n].left = NIL THEN ascendPrevious(ns, n) ELSE descendRight(ns, ns[n].left)

RECURSIVE nodesContainingPointNested(_, _, _, _)
\* nodesContainingPoint as a visitor that descends right only from a node
\* that itself contains the point.
nodesContainingPointNested(ns, n, list, p) ==
  IF lessOrEqual(ns[n].maxRight, p) THEN list
  ELSE
    LET l1 == IF ns[n].left # NIL
              THEN nodesContainingPointNested(ns, ns[n].left, list, p)
              ELSE list
    IN IF lessOrEqual(ns[n].interval.Left, p) /\ PLess(p, ns[n].interval.Right)
       THEN IF ns[n].right # NIL
            THEN nodesContainingPointNested(ns, ns[n].right, Append(l1, n), p)
            ELSE Append(l1, n)
       ELSE l1

RECURSIVE nodesContainingPoint(_, _, _, _)
\* Node.nodesContainingPoint
nodesContainingPoint(ns, n, list, p) ==
  IF lessOrEqual(ns[n].maxRight, p) THEN list
  ELSE
    LET l1 == IF ns[n].left # NIL
              THEN nodesContainingPoint(ns, ns[n].left, list, p)
              ELSE list
    IN IF lessOrEqual(ns[n].interval.Left, p)
       THEN LET l2 == IF PLess(p, ns[n].interval.Right) THEN Append(l1, n) ELSE l1
            IN IF ns[n].right # NIL
               THEN nodesContainingPoint(ns, ns[n].right, l2, p)
               ELSE l2
       ELSE l1

\* T.NodesContainingPoint
NodesContainingPoint(t, p) ==
  IF t.root = NIL THEN <<>> ELSE nodesContainingPoint(t.nodes, t.root, <<>>, p)

RECURSIVE nodesOverlappingInterval(_, _, _, _)
\* Node.nodesOverlappingInterval
nodesOverlappingInterval(ns, n, list, iv) ==
  IF lessOrEqual(ns[n].maxRight, iv.Left) THEN list
  ELSE
    LET l1 == IF PLess(iv.Left, ns[n].interval.Right)
              THEN LET l0 == IF ns[n].left # NIL
                             THEN nodesOverlappingInterval(ns, ns[n].left, list, iv)
                             ELSE list
                   IN IF PLess(ns[n].interval.Left, iv.Right) THEN Append(l0, n) ELSE l0
              ELSE list
    IN IF ns[n].right # NIL
       THEN nodesOverlappingInterval(ns, ns[n].right, l1, iv)
       ELSE l1

\* T.NodesOverlappingInterval
NodesOverlappingInterval(t, iv) ==
  IF Rejected(iv) THEN PANIC
  ELSE IF t.root = NIL THEN <<>>
  ELSE nodesOverlappingInterval(t.nodes, t.root, <<>>, iv)

RECURSIVE nodesContainingIntervalEager(_, _, _, _)
\* nodesContainingInterval as a visitor that also prunes a subtree whose
\* maxRight equals the right endpoint of the query.
nodesContainingIntervalEager(ns, n, list, iv) ==
  IF lessOrEqual(ns[n].maxRight, iv.Right) THEN list
  ELSE
    LET l1 == IF ns[n].left # NIL
              THEN nodesContainingIntervalEager(ns, ns[n].left, list, iv)
              ELSE list
    IN IF lessOrEqual(ns[n].interval.Left, iv.Left)
       THEN LET l2 == IF lessOrEqual(iv.Right, ns[n].interval.Right)
                      THEN Append(l1, n) ELSE l1
            IN IF ns[n].right # NIL
               THEN nodesContainingIntervalEager(ns, ns[n].right, l2, iv)
               ELSE l2
       ELSE l1

RECURSIVE nodesContainingInterval(_, _, _, _)
\* Node.nodesContainingInterval
nodesContainingInterval(ns, n, list, iv) ==
  IF PLess(ns[n].maxRight, iv.Right) THEN list
  ELSE
    LET l1 == IF ns[n].left # NIL
              THEN nodesContainingInterval(ns, ns[n].left, list, iv)
              ELSE list
    IN IF lessOrEqual(ns[n].interval.Left, iv.Left)
       THEN LET l2 == IF lessOrEqual(iv.Right, ns[n].interval.Right)
                      THEN Append(l1, n) ELSE l1
            IN IF ns[n].right # NIL
               THEN nodesContainingInterval(ns, ns[n].right, l2, iv)
               ELSE l2
       ELSE l1

\* T.NodesContainingInterval
NodesContainingInterval(t, iv) ==
  IF Rejected(iv) THEN PANIC
  ELSE IF t.root = NIL THEN <<>>
  ELSE nodesContainingInterval(t.nodes, t.root, <<>>, iv)

RECURSIVE nodesContainedInIntervalNested(_, _, _, _)
\* nodesContainedInInterval as a visitor that descends right only from a
\* node whose left endpoint is within the query.
nodesContainedInIntervalNested(ns, n, list, iv) ==
  IF lessOrEqual(ns[n].maxRight, iv.Left) THEN list
  ELSE IF lessOrEqual(iv.Left, ns[n].interval.Left)
  THEN LET l0 == IF ns[n].left # NIL
                 THEN nodesContainedInIntervalNested(ns, ns[n].left, list, iv)
                 ELSE list
           l1 == IF lessOrEqual(ns[n].interval.Right, iv.Right)
                 THEN Append(l0, n) ELSE l0
       IN IF ns[n].right # NIL
          THEN nodesContainedInIntervalNested(ns, ns[n].right, l1, iv)
          ELSE l1
  ELSE list

RECURSIVE nodesContainedInInterval(_, _, _, _)
\* Node.nodesContainedInInterval
nodesContainedInInterval(ns, n, list, iv) ==
  IF lessOrEqual(ns[n].maxRight, iv.Left) THEN list
  ELSE
    LET l1 == IF lessOrEqual(iv.Left, ns[n].interval.Left)
              THEN LET l0 == IF ns[n].left # NIL
                             THEN nodesContainedInInterval(ns, ns[n].left, list, iv)
                             ELSE list
                   IN IF lessOrEqual(ns[n].interval.Right, iv.Right)
                      THEN Append(l0, n) ELSE l0
              ELSE list
    IN IF ns[n].right # NIL
       THEN nodesContainedInInterval(ns, ns[n].right, l1, iv)
       ELSE l1

\* T.NodesContainedInInterval
NodesContainedInInterval(t, iv) ==
  IF Rejected(iv) THEN PANIC
  ELSE IF t.root = NIL THEN <<>>
  ELSE nodesContainedInInterval(t.nodes, t.root, <<>>, iv)

\* DeleteAndAscend as a call that remembers the other neighbour.
DeleteAndAscendBackwards(t, n) ==
  LET result == NodePrevious(t.nodes, n)
  IN [t |-> DeleteNode(t, n), result |-> result]

\* T.DeleteAndAscend: the tree and the returned node
DeleteAndAscend(t, n) ==
  LET result == NodeNext(t.nodes, n)
  IN [t |-> DeleteNode(t, n), result |-> result]

\* T.DeleteAndDescend: the tree and the returned node
DeleteAndDescend(t, n) ==
  LET result == NodePrevious(t.nodes, n)
  IN [t |-> DeleteNode(t, n), result |-> result]

\* Delete without the test "if n == nil": n.Value of a missing node reads
\* through a nil pointer.
DeleteUnchecked(t, interval) ==
  IF Rejected(interval) THEN [t |-> Panic(t), value |-> NoVal, deleted |-> FALSE]
  ELSE LET n == getNodeFrom(t.nodes, t.root, interval)
       IN IF n = NIL THEN [t |-> Panic(t), value |-> NoVal, deleted |-> FALSE]
          ELSE [t |-> DeleteNode(t, n), value |-> t.nodes[n].Value, deleted |-> TRUE]

\* Delete as a call that returns the value of the node it found and leaves
\* the node in the tree.
DeleteKept(t, interval) ==
  IF Rejected(interval) THEN [t |-> Panic(t), value |-> NoVal, deleted |-> FALSE]
  ELSE LET n == getNodeFrom(t.nodes, t.root, interval)
       IN IF n = NIL THEN [t |-> t, value |-> NoVal, deleted |-> FALSE]
          ELSE [t |-> t, value |-> t.nodes[n].Value, deleted |-> TRUE]

\* T.Delete: the tree and the pair (value, deleted)
Delete(t, interval) ==
  IF Rejected(interval) THEN [t |-> Panic(t), value |-> NoVal, deleted |-> FALSE]
  ELSE LET n == getNodeFrom(t.nodes, t.root, interval)
       IN IF n = NIL THEN [t |-> t, value |-> NoVal, deleted |-> FALSE]
          ELSE [t |-> DeleteNode(t, n), value |-> t.nodes[n].Value, deleted |-> TRUE]

\* ------------------------------------------------------------------------
\* The state machine: a tree and the mirror map of the test harness
\* ------------------------------------------------------------------------
\* The tree held in the variables.
Cur == Tree(root, length, nodes)

\* T.Len
TreeLen(t) == t.length

\* The nodes that are part of tree t.
NodesOf(t) == subtreeNodes(t.nodes, t.root, Cardinality(Addr))

TreeNodes == NodesOf(Cur)

\* No key deleted yet.
NoKey == Interval(NilPoint, NilPoint)

\* No loop was started.
NoLoop ==
  [mode |-> "idle", dir |-> "none", n |-> NIL, iterations |-> 0,
   startLen |-> 0, last |-> NoKey]

\* var tree T; checkMap := make(map[Interval]interface{})
Init ==
  /\ root = NIL
  /\ length = 0
  /\ nodes = [a \in {NIL} \cup Addr |-> FreeNode]
  /\ checkMap = [iv \in Intervals |-> NoVal]
  /\ netInserted = 0
  /\ args = <<>>
  /\ called = "none"
  /\ returned = FALSE
  /\ loop = NoLoop

\* The tree variables after a method left the tree as t.
Store(t) ==
  /\ root' = t.root
  /\ length' = t.length
  /\ nodes' = t.nodes
  /\ UNCHANGED <<args, called, returned, loop>>

\* delete(checkMap, iv); a rejected interval is no key of the map.
mapDelete(m, iv) == IF iv \in DOMAIN m THEN [m EXCEPT ![iv] = NoVal] ELSE m

\* tree.ReplaceOrInsert(iv, v); checkMap[iv] = v.  A panicking call leaves
\* the harness before the map is written.
DoReplaceOrInsert(iv, v) ==
  LET r == ReplaceOrInsert(Cur, iv, v)
  IN /\ Store(r.t)
     /\ checkMap' = IF r.t.panicked THEN checkMap ELSE [checkMap EXCEPT ![iv] = v]
     /\ netInserted' = IF r.t.panicked \/ r.present THEN netInserted
                       ELSE netInserted + 1

\* tree.Delete(iv); delete(checkMap, iv)
DoDelete(iv) ==
  LET r == Delete(Cur, iv)
  IN /\ Store(r.t)
     /\ checkMap' = IF r.t.panicked THEN checkMap ELSE mapDelete(checkMap, iv)
     /\ netInserted' = IF r.deleted THEN netInserted - 1 ELSE netInserted

\* tree.DeleteNode(n) for a node n of the tree
DoDeleteNode(n) ==
  /\ n \in TreeNodes
  /\ Store(DeleteNode(Cur, n))
  /\ checkMap' = mapDelete(checkMap, nodes[n].interval)
  /\ netInserted' = netInserted - 1

\* tree.DeleteAndAscend(n) for a node n of the tree
DoDeleteAndAscend(n) ==
  /\ n \in TreeNodes
  /\ Store(DeleteAndAscend(Cur, n).t)
  /\ checkMap' = mapDelete(checkMap, nodes[n].interval)
  /\ netInserted' = netInserted - 1

\* tree.DeleteAndDescend(n) for a node n of the tree
DoDeleteAndDescend(n) ==
  /\ n \in TreeNodes
  /\ Store(DeleteAndDescend(Cur, n).t)
  /\ checkMap' = mapDelete(checkMap, nodes[n].interval)
  /\ netInserted' = netInserted - 1

\* Payloads 1..MaxVal, trees of at most MaxNodes nodes.
Next ==
  \/ \E iv \in AllIntervals, v \in Values :
       DoReplaceOrInsert(iv, v) /\ length' <= MaxNodes
  \/ \E iv \in AllIntervals : DoDelete(iv)
  \/ \E n \in Addr : DoDeleteNode(n)
  \/ \E n \in Addr : DoDeleteAndAscend(n)
  \/ \E n \in Addr : DoDeleteAndDescend(n)

Spec == Init /\ [][Next]_vars

\* One payload, trees of at most MaxDeepNodes nodes: the shapes that the
\* deeper cases of the rebalancing need.
NextDeep ==
  \/ \E iv \in AllIntervals :
       DoReplaceOrInsert(iv, 1) /\ length' <= MaxDeepNodes
  \/ \E iv \in AllIntervals : DoDelete(iv)
  \/ \E n \in Addr : DoDeleteNode(n)
  \/ \E n \in Addr : DoDeleteAndAscend(n)
  \/ \E n \in Addr : DoDeleteAndDescend(n)

SpecDeep == Init /\ [][NextDeep]_vars

\* "n := tree.GetMin()" before the loop over a non-empty tree
StartAscend ==
  /\ loop.mode = "idle"
  /\ root # NIL
  /\ loop' = [mode |-> "run", dir |-> "ascend", n |-> GetMin(Cur),
              iterations |-> 0, startLen |-> TreeLen(Cur), last |-> NoKey]
  /\ UNCHANGED <<root, length, nodes, checkMap, netInserted, args, called, returned>>

\* "n := tree.GetMax()" before the mirror loop
StartDescend ==
  /\ loop.mode = "idle"
  /\ root # NIL
  /\ loop' = [mode |-> "run", dir |-> "descend", n |-> GetMax(Cur),
              iterations |-> 0, startLen |-> TreeLen(Cur), last |-> NoKey]
  /\ UNCHANGED <<root, length, nodes, checkMap, netInserted, args, called, returned>>

\* One iteration "n = tree.DeleteAndAscend(n)"
StepAscend ==
  /\ loop.mode = "run" /\ loop.dir = "ascend"
  /\ loop.n # NIL
  /\ root' = DeleteAndAscend(Cur, loop.n).t.root
  /\ length' = DeleteAndAscend(Cur, loop.n).t.length
  /\ nodes' = DeleteAndAscend(Cur, loop.n).t.nodes
  /\ checkMap' = mapDelete(checkMap, nodes[loop.n].interval)
  /\ netInserted' = netInserted - 1
  /\ loop' = [loop EXCEPT !.n = DeleteAndAscend(Cur, loop.n).result,
                          !.iterations = @ + 1,
                          !.last = nodes[loop.n].interval]
  /\ UNCHANGED <<args, called, returned>>

\* One iteration "n = tree.DeleteAndDescend(n)"
StepDescend ==
  /\ loop.mode = "run" /\ loop.dir = "descend"
  /\ loop.n # NIL
  /\ root' = DeleteAndDescend(Cur, loop.n).t.root
  /\ length' = DeleteAndDescend(Cur, loop.n).t.length
  /\ nodes' = DeleteAndDescend(Cur, loop.n).t.nodes
  /\ checkMap' = mapDelete(checkMap, nodes[loop.n].interval)
  /\ netInserted' = netInserted - 1
  /\ loop' = [loop EXCEPT !.n = DeleteAndDescend(Cur, loop.n).result,
                          !.iterations = @ + 1,
                          !.last = nodes[loop.n].interval]
  /\ UNCHANGED <<args, called, returned>>

\* The loop condition "n != nil" fails: the loop is left.
LeaveLoop ==
  /\ loop.mode = "run"
  /\ loop.n = NIL
  /\ loop' = [loop EXCEPT !.mode = "done"]
  /\ UNCHANGED <<root, length, nodes, checkMap, netInserted, args, called, returned>>

\* Any calls build a tree of at most MaxLoopNodes nodes; then one of the
\* two loops runs and nothing else touches the tree.
NextLoop ==
  \/ \E iv \in AllIntervals :
       loop.mode = "idle" /\ DoReplaceOrInsert(iv, 1) /\ length' <= MaxLoopNodes
  \/ \E iv \in AllIntervals : loop.mode = "idle" /\ DoDelete(iv)
  \/ \E n \in Addr : loop.mode = "idle" /\ DoDeleteNode(n)
  \/ \E n \in Addr : loop.mode = "idle" /\ DoDeleteAndAscend(n)
  \/ \E n \in Addr : loop.mode = "idle" /\ DoDeleteAndDescend(n)
  \/ StartAscend
  \/ StartDescend
  \/ StepAscend
  \/ StepDescend
  \/ LeaveLoop

\* What an iteration does to the loop: n becomes n.Next() or n.Previous()
\* as they are before the deletion (tree.go 426, 436).
AdvanceLoop ==
  /\ loop.mode = "run"
  /\ loop.n # NIL
  /\ loop' = [loop EXCEPT !.n = IF loop.dir = "ascend"
                                THEN NodeNext(nodes, loop.n)
                                ELSE NodePrevious(nodes, loop.n),
                          !.iterations = @ + 1,
                          !.last = nodes[loop.n].interval]

\* A loop of sequential code that has started goes on: while n is not nil
\* the next iteration is made, and when n is nil the loop is left.
SpecLoop ==
  /\ Init
  /\ [][NextLoop]_vars
  /\ WF_loop(AdvanceLoop)
  /\ WF_loop(LeaveLoop)

\* Every Interval value over the points, the empty ones included.
IntervalInputs == {Interval(l, r) : l \in Points, r \in Points}

\* Three Interval values and no call yet; the tree is not used.
InitInterval ==
  /\ root = NIL
  /\ length = 0
  /\ nodes = [a \in {NIL} \cup Addr |-> FreeNode]
  /\ checkMap = [iv \in Intervals |-> NoVal]
  /\ netInserted = 0
  /\ args \in IntervalInputs \X IntervalInputs \X IntervalInputs
  /\ called = "none"
  /\ returned = FALSE
  /\ loop = NoLoop

\* returned = args[1].Overlaps(args[2])
CallOverlaps ==
  /\ called' = "Overlaps"
  /\ returned' = Overlaps(args[1], args[2])
  /\ UNCHANGED <<root, length, nodes, checkMap, netInserted, args, loop>>

\* returned = args[1].Less(args[2])
CallLess ==
  /\ called' = "Less"
  /\ returned' = IvLess(args[1], args[2])
  /\ UNCHANGED <<root, length, nodes, checkMap, netInserted, args, loop>>

\* returned = args[1].Equal(args[2])
CallEqual ==
  /\ called' = "Equal"
  /\ returned' = IvEqual(args[1], args[2])
  /\ UNCHANGED <<root, length, nodes, checkMap, netInserted, args, loop>>

NextInterval == CallOverlaps \/ CallLess \/ CallEqual

\* The methods of Interval applied to every choice of arguments.
SpecInterval == InitInterval /\ [][NextInterval]_vars

\* ------------------------------------------------------------------------
\* Vocabulary of the properties
\* ------------------------------------------------------------------------
\* The nodes of tree t in in-order.
InOrder(t) == inorder(t.nodes, t.root, Fuel)

RECURSIVE blackCounts(_, _, _)
\* The numbers of black nodes on the paths from n down to a nil child.
blackCounts(ns, n, fuel) ==
  IF n = NIL \/ fuel = 0 THEN {0}
  ELSE {c + (IF ns[n].red THEN 0 ELSE 1) :
          c \in blackCounts(ns, ns[n].left, fuel - 1)
                \cup blackCounts(ns, ns[n].right, fuel - 1)}

\* n has a left and a right child.
HasTwoChildren(ns, n) == ns[n].left # NIL /\ ns[n].right # NIL

\* ------------------------------------------------------------------------
\* C1  After any sequence of ReplaceOrInsert, Delete, DeleteNode,
\* DeleteAndAscend and DeleteAndDescend calls, the in-order traversal of the
\* tree yields keys that are strictly increasing under Interval.Less; no two
\* nodes hold equal keys.
\* ------------------------------------------------------------------------
StrictlyIncreasing(ns, s) ==
  \A i \in 1 .. Len(s) - 1 : IvLess(ns[s[i]].interval, ns[s[i + 1]].interval)

C1_BSTOrder ==
  /\ StrictlyIncreasing(nodes, InOrder(Cur))
  /\ \A a, b \in TreeNodes : a # b => ~IvEqual(nodes[a].interval, nodes[b].interval)

\* A full tree one of whose nodes has two children and a left child with a
\* right child: DeleteNode swaps it with the rightmost node of its left
\* subtree, and the tree it leaves has all the other keys in order.
C1_Witness ==
  /\ length = MaxDeepNodes
  /\ \E n \in TreeNodes :
       /\ HasTwoChildren(nodes, n)
       /\ nodes[nodes[n].left].right # NIL
       /\ Len(InOrder(DeleteNode(Cur, n))) = MaxDeepNodes - 1
       /\ StrictlyIncreasing(DeleteNode(Cur, n).nodes, InOrder(DeleteNode(Cur, n)))

\* ------------------------------------------------------------------------
\* C2  Every node n satisfies n.maxRight = the maximum of key.Right over all
\* nodes in the subtree rooted at n.
\* ------------------------------------------------------------------------
C2_MaxRight ==
  \A n \in TreeNodes : nodes[n].maxRight = SubtreeMaxRight(nodes, n)

\* A tree whose greatest right endpoint is held by a node other than the
\* root, which DeleteNode removes: the maxRight of the root has to drop.
C2_Witness ==
  /\ length >= 4
  /\ \E n \in TreeNodes :
       /\ n # root
       /\ nodes[n].interval.Right = nodes[root].maxRight
       /\ DeleteNode(Cur, n).root = root
       /\ PLess(DeleteNode(Cur, n).nodes[root].maxRight, nodes[root].maxRight)

\* ------------------------------------------------------------------------
\* C3  Every path from the root down to an absent (nil) child contains the
\* same number of black nodes.
\* ------------------------------------------------------------------------
C3_BlackDepth == Cardinality(blackCounts(nodes, root, Fuel)) = 1

\* Seven nodes, all black: a tree that only a deletion produces, and in
\* which deleting a leaf makes rebalanceBlack recurse on a parent that is
\* not the root.
C3_Witness ==
  /\ length = 7
  /\ Cardinality(TreeNodes) = 7
  /\ \A n \in TreeNodes : ~nodes[n].red

\* ------------------------------------------------------------------------
\* C4  No red node has a red left or right child.
\* ------------------------------------------------------------------------
C4_NoRedRed ==
  \A n \in TreeNodes :
    nodes[n].red => black(nodes, nodes[n].left) /\ black(nodes, nodes[n].right)

\* A red node with two black children, one of which has a red child: the
\* tree ReplaceOrInsert leaves after repainting a red auncle below the root.
C4_Witness ==
  \E n \in TreeNodes :
    /\ nodes[n].red
    /\ HasTwoChildren(nodes, n)
    /\ \E c \in {nodes[n].left, nodes[n].right} :
         \E g \in {nodes[c].left, nodes[c].right} : g # NIL /\ nodes[g].red

\* ------------------------------------------------------------------------
\* C5  After every completed ReplaceOrInsert, Delete or DeleteNode, if the
\* tree is non-empty then its root node is black.
\* ------------------------------------------------------------------------
C5_RootBlack == root # NIL => ~nodes[root].red

\* A black root whose only child is red, and the tree DeleteNode of the root
\* leaves: the child is the root, and black.
C5_Witness ==
  /\ length = 2
  /\ \E c \in TreeNodes :
       /\ c # root
       /\ nodes[c].red
       /\ DeleteNode(Cur, root).root = c
       /\ ~DeleteNode(Cur, root).nodes[c].red

\* ------------------------------------------------------------------------
\* C6  Len() equals the number of nodes reachable from the root; it is 0
\* exactly when root is nil.
\* ------------------------------------------------------------------------
C6_Length ==
  /\ length = Cardinality(TreeNodes)
  /\ length = Len(InOrder(Cur))
  /\ (length = 0) <=> (root = NIL)

\* A tree that was filled and then lost nodes: some key that ReplaceOrInsert
\* stored is gone from it again.
C6_Witness ==
  /\ length = 3
  /\ Cardinality(TreeNodes) = 3
  /\ \E n \in TreeNodes : HasTwoChildren(nodes, n) /\ DeleteNode(Cur, n).length = 2

\* ------------------------------------------------------------------------
\* C7  For every node n in the tree with a child c, c.parent = n, and the
\* root is the only node in the tree whose parent is nil.
\* ------------------------------------------------------------------------
C7_ParentLinks ==
  /\ \A n \in TreeNodes :
       /\ nodes[n].left # NIL => nodes[nodes[n].left].parent = n
       /\ nodes[n].right # NIL => nodes[nodes[n].right].parent = n
  /\ \A n \in TreeNodes : (nodes[n].parent = NIL) <=> (n = root)

ParentLinksOf(t) ==
  /\ \A n \in NodesOf(t) :
       /\ t.nodes[n].left # NIL => t.nodes[t.nodes[n].left].parent = n
       /\ t.nodes[n].right # NIL => t.nodes[t.nodes[n].right].parent = n
  /\ \A n \in NodesOf(t) : (t.nodes[n].parent = NIL) <=> (n = t.root)

\* Both two-child swaps of DeleteNode: a node whose left child has no right
\* child and whose predecessor has a left child, and a node whose left child
\* has a right child; each leaves consistent parent links.
C7_Witness ==
  /\ \E n \in TreeNodes :
       /\ HasTwoChildren(nodes, n)
       /\ nodes[nodes[n].left].right = NIL
       /\ nodes[nodes[n].left].left # NIL
       /\ ParentLinksOf(DeleteNode(Cur, n))
  /\ \E n \in TreeNodes :
       /\ HasTwoChildren(nodes, n)
       /\ nodes[nodes[n].left].right # NIL
       /\ ParentLinksOf(DeleteNode(Cur, n))


\* ------------------------------------------------------------------------
\* C8  Run side by side with a reference map from interval to value
\* (ReplaceOrInsert = map put, Delete = map remove), Get(k) returns
\* (map[k], true) for every key k in the map and (nil, false) for every key
\* not in it, and every Delete of a present key returns the value the map
\* held for it.
\* ------------------------------------------------------------------------
C8_MirrorMap ==
  \A k \in Intervals :
    IF checkMap[k] # NoVal
    THEN /\ Get(Cur, k) = <<checkMap[k], TRUE>>
         /\ Delete(Cur, k).value = checkMap[k]
         /\ Delete(Cur, k).deleted
    ELSE Get(Cur, k) = <<NoVal, FALSE>>

\* A map of three keys that holds both payloads, one key with a payload
\* other than its neighbours': Get and Delete have to tell the keys apart.
C8_Witness ==
  /\ Cardinality({k \in Intervals : checkMap[k] # NoVal}) = 3
  /\ {checkMap[k] : k \in Intervals} = Values \cup {NoVal}
  /\ \E k \in Intervals : Get(Cur, k) = <<MaxVal, TRUE>> /\ Delete(Cur, k).value = MaxVal
  /\ \E k \in Intervals : Get(Cur, k) = <<NoVal, FALSE>>

\* ------------------------------------------------------------------------
\* C9  For every non-empty query interval q, NodesOverlappingInterval(q)
\* returns exactly the nodes whose key overlaps q (Interval.Overlaps), each
\* once, in ascending key order; no overlapping node is omitted.
\* ------------------------------------------------------------------------
OverlappingNodes(t, q) ==
  SelectSeq(InOrder(t), LAMBDA n : Overlaps(t.nodes[n].interval, q))

C9_Overlapping ==
  \A q \in Intervals : NodesOverlappingInterval(Cur, q) = OverlappingNodes(Cur, q)

\* ------------------------------------------------------------------------
\* C10  For every point p, NodesContainingPoint(p) returns exactly the nodes
\* whose key [Left,Right) contains p (Left <= p < Right), each once, in
\* ascending key order.
\* ------------------------------------------------------------------------
ContainingNodes(t, p) ==
  SelectSeq(InOrder(t),
            LAMBDA n : t.nodes[n].interval.Left <= p /\ p < t.nodes[n].interval.Right)

C10_ContainingPoint ==
  \A p \in Points : NodesContainingPoint(Cur, p) = ContainingNodes(Cur, p)

\* A query that has to prune and to collect: a point that some keys of a
\* tree of five or more nodes contain, in both subtrees of the root, and
\* others do not.
C10_Witness ==
  /\ length >= 5
  /\ \E p \in Points :
       /\ Len(NodesContainingPoint(Cur, p)) >= 3
       /\ Len(NodesContainingPoint(Cur, p)) < length
       /\ \E i, j \in 1 .. Len(NodesContainingPoint(Cur, p)) :
            /\ NodesContainingPoint(Cur, p)[i] \in subtreeNodes(nodes, nodes[root].left, Fuel)
            /\ NodesContainingPoint(Cur, p)[j] \in subtreeNodes(nodes, nodes[root].right, Fuel)

\* ------------------------------------------------------------------------
\* C11  For every non-empty interval q and every reachable tree,
\* NodesContainingInterval(q) returns exactly the nodes whose key k satisfies
\* k.Left <= q.Left and q.Right <= k.Right, each once, in ascending key
\* order.
\* ------------------------------------------------------------------------
NodesAround(t, q) ==
  SelectSeq(InOrder(t),
            LAMBDA n : /\ t.nodes[n].interval.Left <= q.Left
                       /\ q.Right <= t.nodes[n].interval.Right)

C11_ContainingInterval ==
  \A q \in Intervals : NodesContainingInterval(Cur, q) = NodesAround(Cur, q)

\* A query that a key equal to it and wider keys in both subtrees of the
\* root contain, and that other keys of the tree do not contain.
C11_Witness ==
  /\ length >= 5
  /\ \E q \in Intervals :
       /\ Len(NodesContainingInterval(Cur, q)) >= 3
       /\ Len(NodesContainingInterval(Cur, q)) < length
       /\ \E i, j, k \in 1 .. Len(NodesContainingInterval(Cur, q)) :
            /\ NodesContainingInterval(Cur, q)[i] \in subtreeNodes(nodes, nodes[root].left, Fuel)
            /\ NodesContainingInterval(Cur, q)[j] \in subtreeNodes(nodes, nodes[root].right, Fuel)
            /\ nodes[NodesContainingInterval(Cur, q)[k]].interval = q

\* ------------------------------------------------------------------------
\* C12  For every non-empty interval q and every reachable tree,
\* NodesContainedInInterval(q) returns exactly the nodes whose key k
\* satisfies q.Left <= k.Left and k.Right <= q.Right, each once, in
\* ascending key order.
\* ------------------------------------------------------------------------
NodesWithin(t, q) ==
  SelectSeq(InOrder(t),
            LAMBDA n : /\ q.Left <= t.nodes[n].interval.Left
                       /\ t.nodes[n].interval.Right <= q.Right)

C12_ContainedInInterval ==
  \A q \in Intervals : NodesContainedInInterval(Cur, q) = NodesWithin(Cur, q)

\* A query with keys within it in both subtrees of a root whose own left
\* endpoint lies before the query, in a tree that also has keys outside.
C12_Witness ==
  /\ length >= 5
  /\ \E q \in Intervals :
       /\ PLess(nodes[root].interval.Left, q.Left)
       /\ Len(NodesContainedInInterval(Cur, q)) >= 2
       /\ Len(NodesContainedInInterval(Cur, q)) < length
       /\ \E i \in 1 .. Len(NodesContainedInInterval(Cur, q)) :
            NodesContainedInInterval(Cur, q)[i] \in subtreeNodes(nodes, nodes[root].right, Fuel)

\* ------------------------------------------------------------------------
\* C13  ReplaceOrInsert(i, v) with non-empty i: if a node with key equal to
\* i exists it returns (that node's previous value, true) and Len() is
\* unchanged; otherwise it returns (nil, false) and Len() increases by
\* exactly 1.  In both cases Get(i) returns (v, true) immediately
\* afterwards, and a second ReplaceOrInsert(i, w) returns (v, true).
\* ------------------------------------------------------------------------
HasKey(t, iv) == \E n \in NodesOf(t) : IvEqual(t.nodes[n].interval, iv)

ValueOfKey(t, iv) ==
  t.nodes[CHOOSE n \in NodesOf(t) : IvEqual(t.nodes[n].interval, iv)].Value

C13_ReplaceOrInsert ==
  \A iv \in Intervals, v \in Values :
    /\ ~ReplaceOrInsert(Cur, iv, v).t.panicked
    /\ IF HasKey(Cur, iv)
       THEN /\ ReplaceOrInsert(Cur, iv, v).previous = ValueOfKey(Cur, iv)
            /\ ReplaceOrInsert(Cur, iv, v).present
            /\ ReplaceOrInsert(Cur, iv, v).t.length = length
       ELSE /\ ReplaceOrInsert(Cur, iv, v).previous = NoVal
            /\ ~ReplaceOrInsert(Cur, iv, v).present
            /\ ReplaceOrInsert(Cur, iv, v).t.length = length + 1
    /\ Get(ReplaceOrInsert(Cur, iv, v).t, iv) = <<v, TRUE>>
    /\ \A w \in Values :
         /\ ReplaceOrInsert(ReplaceOrInsert(Cur, iv, v).t, iv, w).previous = v
         /\ ReplaceOrInsert(ReplaceOrInsert(Cur, iv, v).t, iv, w).present

\* A tree of three keys holding both payloads: replacing the payload of one
\* key returns the payload that key had, which its neighbours do not have,
\* and inserting a fourth key makes the length 4.
C13_Witness ==
  /\ length = 3
  /\ \E iv \in Intervals :
       /\ HasKey(Cur, iv)
       /\ ReplaceOrInsert(Cur, iv, 1) = Result(replaceValue(Cur, GetNode(Cur, iv), 1), MaxVal, TRUE)
       /\ \E other \in TreeNodes : nodes[other].Value = 1
  /\ \E iv \in Intervals :
       /\ ~HasKey(Cur, iv)
       /\ ReplaceOrInsert(Cur, iv, MaxVal).t.length = 4
       /\ Get(ReplaceOrInsert(Cur, iv, MaxVal).t, iv) = <<MaxVal, TRUE>>

\* ------------------------------------------------------------------------
\* C14  Delete(i) with non-empty i: if a node with key i exists it returns
\* (that node's value, true), Len() decreases by exactly 1 and Get(i) then
\* returns (nil, false); if no such node exists it returns (nil, false) and
\* the tree (shape, colours, maxRight, values, length) is unchanged.  A
\* second Delete(i) right after a successful one returns (nil, false).
\* ------------------------------------------------------------------------
C14_Delete ==
  \A iv \in Intervals :
    IF HasKey(Cur, iv)
    THEN /\ ~Delete(Cur, iv).t.panicked
         /\ Delete(Cur, iv).value = ValueOfKey(Cur, iv)
         /\ Delete(Cur, iv).deleted
         /\ Delete(Cur, iv).t.length = length - 1
         /\ Get(Delete(Cur, iv).t, iv) = <<NoVal, FALSE>>
         /\ Delete(Delete(Cur, iv).t, iv).value = NoVal
         /\ ~Delete(Delete(Cur, iv).t, iv).deleted
    ELSE /\ Delete(Cur, iv).value = NoVal
         /\ ~Delete(Cur, iv).deleted
         /\ Delete(Cur, iv).t = Cur

\* A tree of six or more keys that lacks some key and in which the key of
\* a black node with two children is deleted: Delete swaps the node with
\* its predecessor before unlinking it.
C14_Witness ==
  /\ length >= 6
  /\ \E iv \in Intervals : ~HasKey(Cur, iv) /\ Delete(Cur, iv).t = Cur
  /\ \E n \in TreeNodes :
       /\ HasTwoChildren(nodes, n)
       /\ ~nodes[n].red
       /\ n # root
       /\ Delete(Cur, nodes[n].interval).deleted
       /\ Delete(Cur, nodes[n].interval).t.length = length - 1
       /\ Get(Delete(Cur, nodes[n].interval).t, nodes[n].interval) = <<NoVal, FALSE>>

\* ------------------------------------------------------------------------
\* C15  Over any history of operations starting from the empty tree, Len()
\* equals (number of ReplaceOrInsert calls that returned present=false)
\* minus (number of Delete calls that returned deleted=true plus DeleteNode
\* calls).
\* ------------------------------------------------------------------------
C15_LenHistory == TreeLen(Cur) = netInserted

\* Three nodes, all black: a tree that no run of insertions alone leaves,
\* so the history has at least four calls that returned present = false
\* and a deletion.
C15_Witness ==
  /\ TreeLen(Cur) = 3
  /\ Cardinality(TreeNodes) = 3
  /\ \A n \in TreeNodes : ~nodes[n].red
  /\ netInserted = 3

\* ------------------------------------------------------------------------
\* C16  Every operation that takes an interval (Get, GetNode, GetLess,
\* GetLessEqual, GetGreater, GetGreaterEqual, ReplaceOrInsert, Delete,
\* NodesContainingInterval, NodesContainedInInterval,
\* NodesOverlappingInterval) panics when given an empty interval
\* (Right <= Left) or one with a missing endpoint, on empty and non-empty
\* trees alike, and the panic happens before any modification: the tree
\* state is identical to the state before the call.
\* ------------------------------------------------------------------------
BadIntervals ==
  {iv \in AllIntervals :
     iv.Left = NilPoint \/ iv.Right = NilPoint \/ iv.Right <= iv.Left}

SameTree(t) == t.root = root /\ t.length = length /\ t.nodes = nodes

C16_EmptyPanics ==
  \A iv \in BadIntervals :
    /\ Get(Cur, iv) = PANIC
    /\ GetNode(Cur, iv) = PANIC
    /\ GetLess(Cur, iv) = PANIC
    /\ GetLessEqual(Cur, iv) = PANIC
    /\ GetGreater(Cur, iv) = PANIC
    /\ GetGreaterEqual(Cur, iv) = PANIC
    /\ NodesContainingInterval(Cur, iv) = PANIC
    /\ NodesContainedInInterval(Cur, iv) = PANIC
    /\ NodesOverlappingInterval(Cur, iv) = PANIC
    /\ \A v \in Values :
         /\ ReplaceOrInsert(Cur, iv, v).t.panicked
         /\ SameTree(ReplaceOrInsert(Cur, iv, v).t)
    /\ Delete(Cur, iv).t.panicked
    /\ SameTree(Delete(Cur, iv).t)

\* A tree of three keys, one of them [0,1), and the rejected intervals
\* [1,1), [1,0), (nil,1), (1,nil) and (nil,nil): ReplaceOrInsert panics on
\* each and the three keys stay.
C16_Witness ==
  /\ length = 3
  /\ HasKey(Cur, Interval(0, 1))
  /\ \A iv \in {Interval(1, 1), Interval(1, 0), Interval(NilPoint, 1),
                 Interval(1, NilPoint), Interval(NilPoint, NilPoint)} :
       /\ iv \in BadIntervals
       /\ ReplaceOrInsert(Cur, iv, 1).t.panicked
       /\ ReplaceOrInsert(Cur, iv, 1).t.length = 3
       /\ GetLessEqual(Cur, iv) = PANIC

\* ------------------------------------------------------------------------
\* C17  For every non-empty interval i and every reachable tree: GetLess(i)
\* returns the node with the greatest key strictly less than i,
\* GetLessEqual(i) the node with the greatest key <= i, GetGreater(i) the
\* node with the least key strictly greater than i, GetGreaterEqual(i) the
\* node with the least key >= i; each returns nil exactly when no such node
\* exists.
\* ------------------------------------------------------------------------
IvLessEq(a, b) == IvLess(a, b) \/ IvEqual(a, b)

\* The node of S with the greatest key, nil for the empty set.
Greatest(t, S) ==
  IF S = {} THEN NIL
  ELSE CHOOSE n \in S : \A m \in S : IvLessEq(t.nodes[m].interval, t.nodes[n].interval)

\* The node of S with the least key, nil for the empty set.
Least(t, S) ==
  IF S = {} THEN NIL
  ELSE CHOOSE n \in S : \A m \in S : IvLessEq(t.nodes[n].interval, t.nodes[m].interval)

C17_Neighbours ==
  \A i \in Intervals :
    /\ GetLess(Cur, i) =
         Greatest(Cur, {n \in TreeNodes : IvLess(nodes[n].interval, i)})
    /\ GetLessEqual(Cur, i) =
         Greatest(Cur, {n \in TreeNodes : IvLessEq(nodes[n].interval, i)})
    /\ GetGreater(Cur, i) =
         Least(Cur, {n \in TreeNodes : IvLess(i, nodes[n].interval)})
    /\ GetGreaterEqual(Cur, i) =
         Least(Cur, {n \in TreeNodes : IvLessEq(i, nodes[n].interval)})

\* The keys [1,2), [2,3), [2,4) of a larger tree queried with [2,3), as
\* TestGetLessGreater does with its three keys, together with a query
\* below every key and a query above every key.
C17_Witness ==
  /\ length >= 5
  /\ HasKey(Cur, Interval(1, 2)) /\ HasKey(Cur, Interval(2, 3)) /\ HasKey(Cur, Interval(2, 4))
  /\ nodes[GetLess(Cur, Interval(2, 3))].interval = Interval(1, 2)
  /\ nodes[GetLessEqual(Cur, Interval(2, 3))].interval = Interval(2, 3)
  /\ nodes[GetGreaterEqual(Cur, Interval(2, 3))].interval = Interval(2, 3)
  /\ nodes[GetGreater(Cur, Interval(2, 3))].interval = Interval(2, 4)
  /\ \E i \in Intervals : GetLess(Cur, i) = NIL /\ GetLessEqual(Cur, i) = NIL
  /\ \E i \in Intervals : GetGreater(Cur, i) = NIL /\ GetGreaterEqual(Cur, i) = NIL

\* ------------------------------------------------------------------------
\* C18  For every non-empty interval i and every reachable tree, GetLess(i)
\* and GetLessEqual(i) return the same result (same node or both nil) if
\* and only if no node in the tree has key equal to i; symmetrically for
\* GetGreater(i) and GetGreaterEqual(i).
\* ------------------------------------------------------------------------
C18_AgreeIffAbsent ==
  \A i \in Intervals :
    /\ (GetLess(Cur, i) = GetLessEqual(Cur, i)) <=> ~HasKey(Cur, i)
    /\ (GetGreater(Cur, i) = GetGreaterEqual(Cur, i)) <=> ~HasKey(Cur, i)

\* A tree with a present key on which the two pairs differ, an absent key
\* between two keys on which each pair agrees on a node, and an absent key
\* on which GetLess and GetLessEqual are both nil.
C18_Witness ==
  /\ length >= 4
  /\ \E i \in Intervals :
       /\ HasKey(Cur, i)
       /\ GetLess(Cur, i) # NIL /\ GetLess(Cur, i) # GetLessEqual(Cur, i)
       /\ GetGreater(Cur, i) # NIL /\ GetGreater(Cur, i) # GetGreaterEqual(Cur, i)
  /\ \E i \in Intervals :
       /\ ~HasKey(Cur, i)
       /\ GetLess(Cur, i) # NIL /\ GetLess(Cur, i) = GetLessEqual(Cur, i)
       /\ GetGreater(Cur, i) # NIL /\ GetGreater(Cur, i) = GetGreaterEqual(Cur, i)
  /\ \E i \in Intervals :
       ~HasKey(Cur, i) /\ GetLess(Cur, i) = NIL /\ GetLessEqual(Cur, i) = NIL

\* ------------------------------------------------------------------------
\* C19  GetMin() returns the node whose key is least under Interval.Less and
\* GetMax() the node whose key is greatest, both nil iff the tree is empty;
\* on a one-node tree they return the same node; inserting a key below all
\* existing keys changes GetMin to the new node and leaves GetMax the same
\* node, and inserting a key above all existing keys changes GetMax and
\* leaves GetMin the same node.
\* ------------------------------------------------------------------------
BelowAll(iv) == \A n \in TreeNodes : IvLess(iv, nodes[n].interval)

AboveAll(iv) == \A n \in TreeNodes : IvLess(nodes[n].interval, iv)

\* The tree after ReplaceOrInsert(iv, 1).
Inserted(iv) == ReplaceOrInsert(Cur, iv, 1).t

C19_MinMax ==
  /\ GetMin(Cur) = Least(Cur, TreeNodes)
  /\ GetMax(Cur) = Greatest(Cur, TreeNodes)
  /\ (GetMin(Cur) = NIL) <=> (length = 0)
  /\ (GetMax(Cur) = NIL) <=> (length = 0)
  /\ length = 1 => GetMin(Cur) = GetMax(Cur)
  /\ \A iv \in Intervals :
       length > 0 /\ BelowAll(iv) =>
         /\ GetMin(Inserted(iv)) \notin TreeNodes \cup {NIL}
         /\ Inserted(iv).nodes[GetMin(Inserted(iv))].interval = iv
         /\ GetMax(Inserted(iv)) = GetMax(Cur)
  /\ \A iv \in Intervals :
       length > 0 /\ AboveAll(iv) =>
         /\ GetMax(Inserted(iv)) \notin TreeNodes \cup {NIL}
         /\ Inserted(iv).nodes[GetMax(Inserted(iv))].interval = iv
         /\ GetMin(Inserted(iv)) = GetMin(Cur)

\* A tree of five or more keys whose least and greatest node are not the
\* root, with a free key below all of them, whose insertion moves the root,
\* and a free key above all of them.
C19_Witness ==
  /\ length >= 5
  /\ GetMin(Cur) # root /\ GetMax(Cur) # root /\ GetMin(Cur) # GetMax(Cur)
  /\ \E iv \in Intervals :
       /\ BelowAll(iv)
       /\ Inserted(iv).root # root
       /\ Inserted(iv).nodes[GetMin(Inserted(iv))].interval = iv
       /\ GetMax(Inserted(iv)) = GetMax(Cur)
  /\ \E iv \in Intervals :
       /\ AboveAll(iv)
       /\ Inserted(iv).nodes[GetMax(Inserted(iv))].interval = iv
       /\ GetMin(Inserted(iv)) = GetMin(Cur)

\* ------------------------------------------------------------------------
\* C20  For every node n of a reachable tree, n.Next() is the node with the
\* least key greater than n's key (nil iff n is GetMax()) and n.Previous()
\* is the node with the greatest key less than n's key (nil iff n is
\* GetMin()); iterating Next from GetMin() visits exactly Len() nodes in
\* strictly increasing key order, and n.Next().Previous() = n whenever
\* n.Next() is non-nil.
\* ------------------------------------------------------------------------
RECURSIVE IterateNext(_, _, _)
\* "for n := tree.GetMin(); n != nil; n = n.Next()", cut off after fuel
\* nodes.
IterateNext(ns, n, fuel) ==
  IF n = NIL \/ fuel = 0 THEN <<>>
  ELSE <<n>> \o IterateNext(ns, NodeNext(ns, n), fuel - 1)

C20_NextPrevious ==
  /\ \A n \in TreeNodes :
       /\ NodeNext(nodes, n) =
            Least(Cur, {m \in TreeNodes : IvLess(nodes[n].interval, nodes[m].interval)})
       /\ (NodeNext(nodes, n) = NIL) <=> (n = GetMax(Cur))
       /\ NodePrevious(nodes, n) =
            Greatest(Cur, {m \in TreeNodes : IvLess(nodes[m].interval, nodes[n].interval)})
       /\ (NodePrevious(nodes, n) = NIL) <=> (n = GetMin(Cur))
       /\ NodeNext(nodes, n) # NIL => NodePrevious(nodes, NodeNext(nodes, n)) = n
  /\ Len(IterateNext(nodes, GetMin(Cur), Fuel + 1)) = TreeLen(Cur)
  /\ StrictlyIncreasing(nodes, IterateNext(nodes, GetMin(Cur), Fuel + 1))
  /\ IterateNext(nodes, GetMin(Cur), Fuel + 1) = InOrder(Cur)

\* A node without a right child whose successor is two or more levels up,
\* a node whose successor is two or more levels down, and the same for
\* Previous.
C20_Witness ==
  /\ length >= 6
  /\ \E n \in TreeNodes :
       /\ nodes[n].right = NIL
       /\ NodeNext(nodes, n) \notin {NIL, nodes[n].parent}
  /\ \E n \in TreeNodes :
       /\ nodes[n].right # NIL
       /\ NodeNext(nodes, n) # nodes[n].right
  /\ \E n \in TreeNodes :
       /\ nodes[n].left = NIL
       /\ NodePrevious(nodes, n) \notin {NIL, nodes[n].parent}
  /\ \E n \in TreeNodes :
       /\ nodes[n].left # NIL
       /\ NodePrevious(nodes, n) # nodes[n].left

\* ------------------------------------------------------------------------
\* C21  DeleteAndAscend(n) removes n and returns the node that was n's
\* in-order successor before the deletion (nil if n was the maximum);
\* DeleteAndDescend(n) removes n and returns n's former predecessor (nil if
\* n was the minimum).  The returned node is still in the tree after the
\* deletion with its key and value unchanged, and equals GetGreater(n.key)
\* resp. GetLess(n.key) evaluated after the deletion.
\* ------------------------------------------------------------------------
Successor(n) ==
  Least(Cur, {m \in TreeNodes : IvLess(nodes[n].interval, nodes[m].interval)})

Predecessor(n) ==
  Greatest(Cur, {m \in TreeNodes : IvLess(nodes[m].interval, nodes[n].interval)})

\* Node m of the tree in the variables is a node of t with the key and
\* value it has in the variables.
Kept(t, m) ==
  /\ m \in NodesOf(t)
  /\ t.nodes[m].interval = nodes[m].interval
  /\ t.nodes[m].Value = nodes[m].Value

C21_DeleteAndStep ==
  \A n \in TreeNodes :
    /\ DeleteAndAscend(Cur, n).result = Successor(n)
    /\ (DeleteAndAscend(Cur, n).result = NIL) <=> (n = GetMax(Cur))
    /\ n \notin NodesOf(DeleteAndAscend(Cur, n).t)
    /\ DeleteAndAscend(Cur, n).t.length = length - 1
    /\ DeleteAndAscend(Cur, n).result # NIL =>
         Kept(DeleteAndAscend(Cur, n).t, DeleteAndAscend(Cur, n).result)
    /\ DeleteAndAscend(Cur, n).result =
         GetGreater(DeleteAndAscend(Cur, n).t, nodes[n].interval)
    /\ DeleteAndDescend(Cur, n).result = Predecessor(n)
    /\ (DeleteAndDescend(Cur, n).result = NIL) <=> (n = GetMin(Cur))
    /\ n \notin NodesOf(DeleteAndDescend(Cur, n).t)
    /\ DeleteAndDescend(Cur, n).t.length = length - 1
    /\ DeleteAndDescend(Cur, n).result # NIL =>
         Kept(DeleteAndDescend(Cur, n).t, DeleteAndDescend(Cur, n).result)
    /\ DeleteAndDescend(Cur, n).result =
         GetLess(DeleteAndDescend(Cur, n).t, nodes[n].interval)

\* A node with two children whose left child has a right child: the
\* predecessor DeleteAndDescend returns is the node DeleteNode swaps it
\* with, and it takes the place of the deleted node; in the same tree the
\* greatest node, for which DeleteAndAscend returns nil.
C21_Witness ==
  /\ length >= 6
  /\ \E n \in TreeNodes :
       /\ HasTwoChildren(nodes, n)
       /\ nodes[nodes[n].left].right # NIL
       /\ nodes[n].parent # NIL
       /\ DeleteAndDescend(Cur, n).result = descendRight(nodes, nodes[n].left)
       /\ DeleteAndDescend(Cur, n).t.nodes[DeleteAndDescend(Cur, n).result].parent
            = nodes[n].parent
       /\ DeleteAndAscend(Cur, n).result = leftmost(nodes, nodes[n].right)
  /\ DeleteAndAscend(Cur, GetMax(Cur)).result = NIL
  /\ DeleteAndDescend(Cur, GetMin(Cur)).result = NIL

\* ------------------------------------------------------------------------
\* C22  Node identity is stable: for every node m in the tree before a
\* ReplaceOrInsert of any key or a DeleteNode/Delete of a different node
\* (including when the deleted node has two children and m is the
\* predecessor it is swapped with), m is still in the tree afterwards with
\* the same key, GetNode(m.Interval()) returns m itself, and m.Value is
\* unchanged unless the operation was a ReplaceOrInsert on m's own key.
\* ------------------------------------------------------------------------
\* Node.Interval
NodeInterval(ns, n) == ns[n].interval

\* Node m of the tree in the variables is in t under its key.
SameNode(t, m) ==
  /\ ~t.panicked
  /\ m \in NodesOf(t)
  /\ NodeInterval(t.nodes, m) = NodeInterval(nodes, m)
  /\ GetNode(t, NodeInterval(t.nodes, m)) = m

C22_NodeIdentity ==
  \A m \in TreeNodes :
    /\ \A iv \in Intervals, v \in Values :
         /\ SameNode(ReplaceOrInsert(Cur, iv, v).t, m)
         /\ ReplaceOrInsert(Cur, iv, v).t.nodes[m].Value =
              IF IvEqual(iv, NodeInterval(nodes, m)) THEN v ELSE nodes[m].Value
    /\ \A n \in TreeNodes \ {m} :
         /\ SameNode(DeleteNode(Cur, n), m)
         /\ DeleteNode(Cur, n).nodes[m].Value = nodes[m].Value
         /\ SameNode(Delete(Cur, NodeInterval(nodes, n)).t, m)
         /\ Delete(Cur, NodeInterval(nodes, n)).t.nodes[m].Value = nodes[m].Value

\* Both swaps of DeleteNode seen from the predecessor m: deleting its
\* parent n, whose left child it is, and deleting an ancestor n further up;
\* m takes the place of n.  Also an insertion that rotates at m's parent.
C22_Witness ==
  /\ \E n \in TreeNodes :
       /\ HasTwoChildren(nodes, n)
       /\ nodes[nodes[n].left].right = NIL
       /\ SameNode(DeleteNode(Cur, n), nodes[n].left)
       /\ DeleteNode(Cur, n).nodes[nodes[n].left].right = nodes[n].right
  /\ \E n \in TreeNodes :
       /\ HasTwoChildren(nodes, n)
       /\ nodes[nodes[n].left].right # NIL
       /\ SameNode(DeleteNode(Cur, n), descendRight(nodes, nodes[n].left))
       /\ DeleteNode(Cur, n).nodes[descendRight(nodes, nodes[n].left)].left = nodes[n].left
  /\ \E m \in TreeNodes, iv \in Intervals :
       /\ ~HasKey(Cur, iv)
       /\ nodes[m].parent # NIL
       /\ ReplaceOrInsert(Cur, iv, MaxVal).t.nodes[m].parent \notin {NIL, nodes[m].parent}
       /\ SameNode(ReplaceOrInsert(Cur, iv, MaxVal).t, m)

\* ------------------------------------------------------------------------
\* C23  On an empty tree, whether the zero value of T or a tree emptied by
\* deleting every node, with non-empty interval arguments: Get and Delete
\* return (nil, false); GetNode, GetLess, GetLessEqual, GetGreater,
\* GetGreaterEqual, GetMin and GetMax return nil; NodesContainingPoint,
\* NodesContainingInterval, NodesContainedInInterval and
\* NodesOverlappingInterval return an empty sequence; Len() is 0; none of
\* them panics.
\* ------------------------------------------------------------------------
EmptyTreeAnswers(t) ==
  /\ TreeLen(t) = 0
  /\ GetMin(t) = NIL
  /\ GetMax(t) = NIL
  /\ \A p \in Points : NodesContainingPoint(t, p) = <<>>
  /\ \A iv \in Intervals :
       /\ Get(t, iv) = <<NoVal, FALSE>>
       /\ Delete(t, iv) = [t |-> t, value |-> NoVal, deleted |-> FALSE]
       /\ ~Delete(t, iv).t.panicked
       /\ GetNode(t, iv) = NIL
       /\ GetLess(t, iv) = NIL
       /\ GetLessEqual(t, iv) = NIL
       /\ GetGreater(t, iv) = NIL
       /\ GetGreaterEqual(t, iv) = NIL
       /\ NodesContainingInterval(t, iv) = <<>>
       /\ NodesContainedInInterval(t, iv) = <<>>
       /\ NodesOverlappingInterval(t, iv) = <<>>

C23_EmptyTree ==
  /\ (length = 0 \/ root = NIL) => EmptyTreeAnswers(Cur)
  /\ length = 1 =>
       /\ EmptyTreeAnswers(DeleteNode(Cur, root))
       /\ EmptyTreeAnswers(Delete(Cur, NodeInterval(nodes, root)).t)
       /\ EmptyTreeAnswers(DeleteAndAscend(Cur, root).t)
       /\ EmptyTreeAnswers(DeleteAndDescend(Cur, root).t)

\* A tree of one node, which Delete removes: the tree is empty again and
\* answers as the zero value does.
C23_Witness ==
  /\ length = 1
  /\ Delete(Cur, NodeInterval(nodes, root)).t.root = NIL
  /\ Delete(Cur, NodeInterval(nodes, root)).t.length = 0
  /\ Get(Delete(Cur, NodeInterval(nodes, root)).t, NodeInterval(nodes, root)) = <<NoVal, FALSE>>

\* ------------------------------------------------------------------------
\* C24  For all intervals iv and with over a bounded integer point domain,
\* iv.Overlaps(with) is true if and only if the intersection of the two
\* half-open intervals contains at least one point, i.e. there is a point p
\* with iv.ContainsPoint(p) and with.ContainsPoint(p); Overlaps is
\* symmetric in its two arguments.
\* ------------------------------------------------------------------------
CommonPoint(iv, with) ==
  \E p \in Points : ContainsPoint(iv, p) /\ ContainsPoint(with, p)

C24_Overlaps ==
  called = "Overlaps" =>
    /\ returned <=> CommonPoint(args[1], args[2])
    /\ returned = Overlaps(args[2], args[1])

\* ------------------------------------------------------------------------
\* C25  Over a totally ordered point domain, Interval.Less is a strict
\* total order consistent with Interval.Equal: for all intervals a, b
\* exactly one of a.Less(b), b.Less(a), a.Equal(b) holds, Less is
\* irreflexive and transitive, and a.Less(b) iff a.Left < b.Left or
\* (a.Left = b.Left and a.Right < b.Right).
\* ------------------------------------------------------------------------
ExactlyOne(x, y, z) == (x /\ ~y /\ ~z) \/ (~x /\ y /\ ~z) \/ (~x /\ ~y /\ z)

C25_LessOrder ==
  /\ called = "Less" =>
       /\ returned <=>
            \/ args[1].Left < args[2].Left
            \/ args[1].Left = args[2].Left /\ args[1].Right < args[2].Right
       /\ ExactlyOne(returned, IvLess(args[2], args[1]), IvEqual(args[1], args[2]))
       /\ args[1] = args[2] => ~returned
       /\ returned /\ IvLess(args[2], args[3]) => IvLess(args[1], args[3])
  /\ called = "Equal" =>
       /\ returned <=> (args[1].Left = args[2].Left /\ args[1].Right = args[2].Right)
       /\ returned <=> ~(IvLess(args[1], args[2]) \/ IvLess(args[2], args[1]))

\* a.Less(b) decided by the right endpoints, the left ones being equal,
\* and b.Less(c) decided by the left endpoints.
C25_Witness ==
  /\ called = "Less"
  /\ returned
  /\ args[1].Left = args[2].Left
  /\ IvLess(args[2], args[3])
  /\ args[2].Right > args[3].Right

\* ------------------------------------------------------------------------
\* C26  Every rotateLeft/rotateRight executed during any ReplaceOrInsert or
\* DeleteNode leaves the in-order sequence of nodes unchanged and, on
\* return, the maxRight of both the pivot m and the new subtree root n
\* equals the maximum key.Right over their new subtrees (the code only
\* raises n.maxRight to the new m.maxRight rather than recomputing it).
\* ------------------------------------------------------------------------
C26_Rotations ==
  /\ \A iv \in Intervals : ReplaceOrInsert(Cur, iv, 1).t.rotationsSound
  /\ \A n \in TreeNodes : DeleteNode(Cur, n).rotationsSound

\* The parent of a node that stays in the tree changes only in a rotation
\* or in the swap of DeleteNode: an insertion after which a node has a new
\* parent whose maxRight went up, and the deletion of a leaf after which a
\* node has a new parent.
C26_Witness ==
  /\ \E iv \in Intervals, m \in TreeNodes :
       /\ ~HasKey(Cur, iv)
       /\ ReplaceOrInsert(Cur, iv, 1).t.nodes[m].parent \notin {NIL, nodes[m].parent}
       /\ PLess(nodes[ReplaceOrInsert(Cur, iv, 1).t.nodes[m].parent].maxRight,
                ReplaceOrInsert(Cur, iv, 1).t.nodes[ReplaceOrInsert(Cur, iv, 1).t.nodes[m].parent].maxRight)
       /\ ReplaceOrInsert(Cur, iv, 1).t.rotationsSound
  /\ \E n \in TreeNodes, m \in TreeNodes :
       /\ nodes[n].left = NIL /\ nodes[n].right = NIL
       /\ m # n
       /\ DeleteNode(Cur, n).nodes[m].parent \notin {NIL, nodes[m].parent}
       /\ DeleteNode(Cur, n).rotationsSound

\* ------------------------------------------------------------------------
\* C27  No nil node is dereferenced during rebalancing: in every
\* rebalanceBlack call reachable from DeleteNode with parent non-nil, the
\* sibling of n under parent is non-nil on entry, after the red-sibling
\* rotation and after the case-2 rotation; in rebalanceRed the grandparent
\* is non-nil whenever the parent is red; and rotateLeft (rotateRight) is
\* only ever invoked on a node whose right (left) child is non-nil.
\* ------------------------------------------------------------------------
C27_NoNilDereference ==
  /\ \A iv \in Intervals : ~ReplaceOrInsert(Cur, iv, 1).t.panicked
  /\ \A n \in TreeNodes :
       /\ ~DeleteNode(Cur, n).panicked
       /\ ~Delete(Cur, NodeInterval(nodes, n)).t.panicked

IsLeaf(n) == nodes[n].left = NIL /\ nodes[n].right = NIL

\* The deletion of a black leaf with a red sibling, the deletion of a black
\* left leaf whose black sibling has a red left child only (case 2), and
\* an insertion below a red parent with no auncle, which rotates at the
\* grandparent.
C27_Witness ==
  /\ \E n \in TreeNodes :
       /\ IsLeaf(n) /\ ~nodes[n].red /\ nodes[n].parent # NIL
       /\ sibling(nodes, n, nodes[n].parent) # NIL
       /\ nodes[sibling(nodes, n, nodes[n].parent)].red
       /\ ~DeleteNode(Cur, n).panicked
  /\ \E n \in TreeNodes :
       /\ IsLeaf(n) /\ ~nodes[n].red /\ nodes[n].parent # NIL
       /\ nodes[nodes[n].parent].left = n
       /\ ~nodes[nodes[nodes[n].parent].right].red
       /\ nodes[nodes[nodes[n].parent].right].left # NIL
       /\ nodes[nodes[nodes[n].parent].right].right = NIL
       /\ ~DeleteNode(Cur, n).panicked
  /\ \E iv \in Intervals, p \in TreeNodes :
       /\ ~HasKey(Cur, iv)
       /\ nodes[p].red /\ IsLeaf(p)
       /\ sibling(nodes, p, nodes[p].parent) = NIL
       /\ ReplaceOrInsert(Cur, iv, 1).t.nodes[nodes[p].parent].parent # nodes[nodes[p].parent].parent
       /\ ~ReplaceOrInsert(Cur, iv, 1).t.panicked

\* ------------------------------------------------------------------------
\* C28  After DeleteNode(n) returns, n is not reachable from the root
\* through left/right links and no node remaining in the tree has its
\* parent, left or right link pointing at n.
\* ------------------------------------------------------------------------
\* Nothing of tree t leads to n.
Detached(t, n) ==
  /\ t.root # n
  /\ n \notin NodesOf(t)
  /\ \A m \in NodesOf(t) :
       t.nodes[m].parent # n /\ t.nodes[m].left # n /\ t.nodes[m].right # n

C28_Detached ==
  \A n \in TreeNodes :
    /\ Detached(DeleteNode(Cur, n), n)
    /\ Cardinality(NodesOf(DeleteNode(Cur, n))) = Cardinality(TreeNodes) - 1

\* A node with two children, swapped with a predecessor that is not its
\* left child and has a left child of its own: the swap puts the node
\* between the two before DeleteNode unlinks it.
C28_Witness ==
  \E n \in TreeNodes :
    /\ HasTwoChildren(nodes, n)
    /\ nodes[nodes[n].left].right # NIL
    /\ nodes[descendRight(nodes, nodes[n].left)].left # NIL
    /\ Detached(DeleteNode(Cur, n), n)

\* ------------------------------------------------------------------------
\* C29  Starting from any reachable non-empty tree, the loop
\* n := GetMin(); while n != nil { n = DeleteAndAscend(n) } terminates after
\* exactly Len() iterations, deletes the nodes in strictly increasing key
\* order, keeps invariants I1-I5 (order, maxRight, black depth, no red-red,
\* black root) true after each step, and ends with Len() = 0 and root nil;
\* the mirror loop from GetMax() with DeleteAndDescend behaves
\* symmetrically.
\* ------------------------------------------------------------------------
LoopStepOK ==
  loop.mode # "idle" =>
    /\ loop.iterations + TreeLen(Cur) = loop.startLen
    /\ C1_BSTOrder /\ C2_MaxRight /\ C3_BlackDepth /\ C4_NoRedRed /\ C5_RootBlack
    /\ loop.dir = "ascend" => loop.n = GetMin(Cur)
    /\ loop.dir = "descend" => loop.n = GetMax(Cur)
    /\ (loop.n # NIL /\ loop.last # NoKey) =>
         IF loop.dir = "ascend"
         THEN IvLess(loop.last, nodes[loop.n].interval)
         ELSE IvLess(nodes[loop.n].interval, loop.last)
    /\ loop.n # NIL =>
         /\ loop.n \in TreeNodes
         /\ DeleteAndAscend(Cur, loop.n).result = NodeNext(nodes, loop.n)
         /\ DeleteAndDescend(Cur, loop.n).result = NodePrevious(nodes, loop.n)

LoopEnded ==
  /\ loop.mode = "done"
  /\ loop.iterations = loop.startLen
  /\ TreeLen(Cur) = 0
  /\ root = NIL

NodeOfKey(iv) == CHOOSE n \in TreeNodes : IvEqual(nodes[n].interval, iv)

\* Tree t differs from the current tree at most in the Value of node n.
OnlyValueOf(t, n) ==
  /\ t.root = root
  /\ t.length = length
  /\ ~t.panicked
  /\ t.rotationsSound
  /\ \A a \in DOMAIN nodes :
       /\ t.nodes[a].parent = nodes[a].parent
       /\ t.nodes[a].left = nodes[a].left
       /\ t.nodes[a].right = nodes[a].right
       /\ t.nodes[a].red = nodes[a].red
       /\ t.nodes[a].maxRight = nodes[a].maxRight
       /\ t.nodes[a].interval = nodes[a].interval
       /\ a # n => t.nodes[a].Value = nodes[a].Value
  /\ t = [Cur EXCEPT !.nodes[n].Value = t.nodes[n].Value]

C30_ReplaceFrame ==
  \A iv \in Intervals, v \in Values :
    HasKey(Cur, iv) =>
      /\ OnlyValueOf(ReplaceOrInsert(Cur, iv, v).t, NodeOfKey(iv))
      /\ ReplaceOrInsert(Cur, iv, v).t.nodes[NodeOfKey(iv)].Value = v

\* A tree of at least three nodes in which a key below the root, whose
\* right end is below the root's maxRight, gets a payload that it did not
\* have while another node keeps a different payload.
C30_Witness ==
  /\ length >= 3
  /\ \E iv \in Intervals, v \in Values :
       /\ HasKey(Cur, iv)
       /\ NodeOfKey(iv) # root
       /\ nodes[NodeOfKey(iv)].Value # v
       /\ PLess(iv.Right, nodes[root].maxRight)
       /\ \E other \in TreeNodes \ {NodeOfKey(iv)} : nodes[other].Value # v
       /\ ReplaceOrInsert(Cur, iv, v).present
       /\ ReplaceOrInsert(Cur, iv, v).t.nodes[NodeOfKey(iv)].Value = v

\* ---------------------------------------------------------------------
\* C31: in every reachable tree the height, the number of nodes on the
\* longest path from the root down to a nil link, is at most
\* 2*log2(Len()+1), and the number of nested calls of Node.replaceOrInsert
\* and of each of the four range-query visitors is at most the height,
\* hence within the same bound.  For integers h and n, h <= 2*log2(n+1)
\* is 2^h <= (n+1)^2.
\* ---------------------------------------------------------------------

Larger(a, b) == IF a >= b THEN a ELSE b

RECURSIVE height(_, _, _)
\* The number of nodes on the longest path from n down to a nil link.
height(ns, n, fuel) ==
  IF n = NIL \/ fuel = 0 THEN 0
  ELSE 1 + Larger(height(ns, ns[n].left, fuel - 1),
                  height(ns, ns[n].right, fuel - 1))

Height(t) == height(t.nodes, t.root, Fuel)

\* d <= 2*log2(len + 1)
WithinLogBound(d, len) == 2^d <= (len + 1) * (len + 1)

RECURSIVE replaceOrInsertDepth(_, _, _)
\* The nested calls of Node.replaceOrInsert that start at n: the call on n
\* and the calls it makes on n.right (point.go 245) or n.left (point.go 261).
replaceOrInsertDepth(ns, n, interval) ==
  IF IvLess(ns[n].interval, interval)
  THEN IF ns[n].right # NIL
       THEN 1 + replaceOrInsertDepth(ns, ns[n].right, interval)
       ELSE 1
  ELSE IF IvLess(interval, ns[n].interval)
  THEN IF ns[n].left # NIL
       THEN 1 + replaceOrInsertDepth(ns, ns[n].left, interval)
       ELSE 1
  ELSE 1

\* T.ReplaceOrInsert calls Node.replaceOrInsert on the root of a tree that
\* is not empty (tree.go 253-263).
ReplaceOrInsertDepth(t, interval) ==
  IF Rejected(interval) \/ t.length = 0 THEN 0
  ELSE replaceOrInsertDepth(t.nodes, t.root, interval)

RECURSIVE nodesContainingPointDepth(_, _, _)
\* The nested calls of Node.nodesContainingPoint that start at n.
nodesContainingPointDepth(ns, n, p) ==
  IF lessOrEqual(ns[n].maxRight, p) THEN 1
  ELSE 1 + Larger(IF ns[n].left # NIL
                  THEN nodesContainingPointDepth(ns, ns[n].left, p)
                  ELSE 0,
                  IF lessOrEqual(ns[n].interval.Left, p) /\ ns[n].right # NIL
                  THEN nodesContainingPointDepth(ns, ns[n].right, p)
                  ELSE 0)

RECURSIVE nodesContainingIntervalDepth(_, _, _)
\* The nested calls of Node.nodesContainingInterval that start at n.
nodesContainingIntervalDepth(ns, n, iv) ==
  IF PLess(ns[n].maxRight, iv.Right) THEN 1
  ELSE 1 + Larger(IF ns[n].left # NIL
                  THEN nodesContainingIntervalDepth(ns, ns[n].left, iv)
                  ELSE 0,
                  IF lessOrEqual(ns[n].interval.Left, iv.Left) /\ ns[n].right # NIL
                  THEN nodesContainingIntervalDepth(ns, ns[n].right, iv)
                  ELSE 0)

RECURSIVE nodesContainedInIntervalDepth(_, _, _)
\* The nested calls of Node.nodesContainedInInterval that start at n.
nodesContainedInIntervalDepth(ns, n, iv) ==
  IF lessOrEqual(ns[n].maxRight, iv.Left) THEN 1
  ELSE 1 + Larger(IF lessOrEqual(iv.Left, ns[n].interval.Left) /\ ns[n].left # NIL
                  THEN nodesContainedInIntervalDepth(ns, ns[n].left, iv)
                  ELSE 0,
                  IF ns[n].right # NIL
                  THEN nodesContainedInIntervalDepth(ns, ns[n].right, iv)
                  ELSE 0)

RECURSIVE nodesOverlappingIntervalDepth(_, _, _)
\* The nested calls of Node.nodesOverlappingInterval that start at n.
nodesOverlappingIntervalDepth(ns, n, iv) ==
  IF lessOrEqual(ns[n].maxRight, iv.Left) THEN 1
  ELSE 1 + Larger(IF PLess(iv.Left, ns[n].interval.Right) /\ ns[n].left # NIL
                  THEN nodesOverlappingIntervalDepth(ns, ns[n].left, iv)
                  ELSE 0,
                  IF ns[n].right # NIL
                  THEN nodesOverlappingIntervalDepth(ns, ns[n].right, iv)
                  ELSE 0)

\* The deepest nesting of the four visitors on tree t over every point and
\* every interval the queries accept; 0 on the empty tree, where the
\* queries return before they call a visitor (tree.go 271, 286, 301, 317).
VisitorDepths(t) ==
  IF t.root = NIL THEN {0}
  ELSE {nodesContainingPointDepth(t.nodes, t.root, p) : p \in Points}
       \cup {nodesContainingIntervalDepth(t.nodes, t.root, iv) : iv \in Intervals}
       \cup {nodesContainedInIntervalDepth(t.nodes, t.root, iv) : iv \in Intervals}
       \cup {nodesOverlappingIntervalDepth(t.nodes, t.root, iv) : iv \in Intervals}

C31_LogHeight ==
  /\ WithinLogBound(Height(Cur), TreeLen(Cur))
  /\ \A iv \in Intervals :
       /\ ReplaceOrInsertDepth(Cur, iv) <= Height(Cur)
       /\ WithinLogBound(ReplaceOrInsertDepth(Cur, iv), TreeLen(Cur))
  /\ \A d \in VisitorDepths(Cur) :
       /\ d <= Height(Cur)
       /\ WithinLogBound(d, TreeLen(Cur))

\* A tree of height 4 that has the fewest nodes a red-black tree of that
\* height can have, 6, in which an insertion and a visitor both descend
\* through all 4 levels.
C31_Witness ==
  /\ Height(Cur) = 4
  /\ TreeLen(Cur) = 6
  /\ \E iv \in Intervals : ReplaceOrInsertDepth(Cur, iv) = 4
  /\ 4 \in VisitorDepths(Cur)

====
